---- MODULE Spec2Model ----
(***************************************************************************)
(* Model of tc_tools: the steady-state monitor (utils.steady_state_monitor),*)
(* the calibration writer (utils.DataWriter / CalibrationWriter), the DAQ   *)
(* and PRT adapters (instruments.py) and the set-point calibration          *)
(* procedure (procedures.setpoint_calibration), the DAQ's calibration       *)
(* entries, the draw scheduler (the main loop of DOEtest.py) and a draw     *)
(* task (procedures.draw) beside the sampler.                               *)
(*                                                                         *)
(* Temperatures are integers in thousandths of a degree (the PRT reply      *)
(* carries six characters, e.g. "25.000"), so steady_delta = 0.1 is 100.    *)
(***************************************************************************)
EXTENDS Integers, Sequences, FiniteSets, TLC

VARIABLES
    \* ---- steady_state_monitor (utils.py 189-211) ----
    mon_pc,             \* "idle" | "poll" | "sleep" | "returned"
    temperature_array,  \* the local temperature_array
    steady_state,       \* the local steady_state
    mon_ret,            \* value returned: "pending" | "True" | "None"
    mon_calls,          \* number of invocations started so far
    \* history of the running invocation (not read by the code)
    hist,               \* readings accepted in this invocation, in arrival order
    mon_consec,         \* failed attempts since the last accepted reading
    mon_since,          \* last event of this invocation: "start" | "attempt" | "sleep"
    mon_gap,            \* what separated the latest attempt from the one before
    \* ---- thermometer and bath (environment) ----
    prof,               \* temperature profile of the bath for this invocation
    prt_state,          \* "ok": replies are well formed; "faulty": they are not;
                        \* "settled": well formed from now on
    \* ---- DAQ (instruments.py 88-189) ----
    channels_set,       \* DAQ.channels_set
    channels,           \* DAQ.channels
    daq_queries,        \* READ? queries sent to the DAQ since the running operation began
    acq_result,         \* outcome of a direct DAQ.get_temp_uncalibrated call, "none"
                        \* once another operation has begun
    \* ---- DataWriter (utils.py 30-67) and its file ----
    fexists,            \* a file exists at output_file_path
    disk,               \* rows that reached the file
    buf,                \* rows written but still in the stream's buffer
    w_headers,          \* DataWriter.headers
    file_already_exists,\* DataWriter.file_already_exists
    \* ---- CalibrationWriter.collect_data (utils.py 73-96) ----
    col_pc,             \* "idle" | "attempt" | "sleep" | "flush" | "returned" | "raised"
    successful_reads,   \* the local successful_reads
    col_reads,          \* the parameter reads
    col_calls,          \* number of collect_data calls started
    col_exc,            \* exception that left collect_data: "none" or its type
    \* history of the running call (not read by the code)
    col_attempts,       \* acquisition attempts made
    col_failed,         \* attempts that raised
    col_rows0,          \* rows in the file and buffer when the call began
    col_ev,             \* the last two events: "start" | "ok" | "fail" | "sleep"
    col_lasterr,        \* exception type raised by the latest attempt, or "none"
    \* ---- setpoint_calibration (procedures.py 4-39) ----
    proc_pc,            \* "idle" | "new_writer" | "set_channels" | "sanity" | "bath_start"
                        \* | "loop" | "monitor" | "collect" | "done" | "raised"
    proc_args,          \* the arguments set_points, headers, channels
    point_idx,          \* number of set-points the for loop has started
    bath_log,           \* commands sent to the bath, in order
    proc_exc,           \* exception that left setpoint_calibration: "none" or its type
    sanity,             \* the readings compared before the bath starts and the
                        \* message logged, while that check is the latest step
    \* ---- DAQ calibration (instruments.py 103, 116, 161-189) ----
    cal_functions,      \* DAQ.cal_functions: channel -> its entry (gain, offset), or Absent
    cal_set,            \* per channel, the latest set_calibration call (Never if none)
    cal_out,            \* the latest get_calibrated_temp call: its exception, the
                        \* raw readings it obtained and the list it returned
    \* ---- a process that owns a DataWriter (utils.py 30-67) ----
    w_open,             \* a process holding a writer on the path is running
    w_runs,             \* processes started on the path so far
    w_written,          \* rows the running process's writer has written, in order
    disk0,              \* contents of the file when the running writer was constructed
    \* ---- draw scheduler, the main loop of DOEtest.py (103-122) ----
    sched_pc,           \* "off" | "test" | "read" | "check" | "sleep" | "done" | "raised"
    schedule,           \* schedule.time, in minutes; rate and volume go with the entry
    now,                \* time.time() - start_time, in minutes
    elapsed,            \* the variable elapsed
    draw_num,           \* the variable draw_num (an index counted from 0)
    draws_finished,     \* the variable draws_finished
    launched,           \* draw processes started: the entry (from 0) and elapsed at the start
    \* ---- a draw task (procedures.py 76-109) and the sampler beside it ----
    draw_pc,            \* position of the draw task
    draw_args,          \* its arguments flow_rate and draw_amount
    draw_log,           \* steps the draw task has completed, in order
    draw_exc,           \* exception that ended the draw task, or "none"
    samp_pc,            \* position of the sampler in SimulatedUseWriter.read_data
    samp_exc,           \* exception that ended read_data, or "none"
    samp_between,       \* bus operations of the draw task that landed since the
                        \* sampler wrote its humidity configuration, up to its read
    active,             \* entries whose draw process is running
    \* ---- instruments during a collect_data batch (environment) ----
    env_vary,           \* FALSE: the bath is steady and every reading is the same;
                        \* TRUE: each acquisition attempt sees readings of its own
    \* ---- DrawWriter (utils.py 150-187) ----
    dw_start,           \* DrawWriter.start
    dw_now,             \* time.time()
    dw_rows,            \* rows written: the call's argument, the elapsed field,
                        \* and the clock and the start time at the call
    dw_last,            \* the latest read_data call: its argument, whether the
                        \* instruments answered it, and the exception it raised
    \* ---- SimulatedUseWriter.gather_data (utils.py 120-128, 145-147) ----
    ga_pc,              \* "off" | "test" | "read" | "sleep" | "returned" | "raised"
    recording,          \* SimulatedUseWriter.recording
    ga_stopped,         \* stop_data has been invoked
    ga_after_stop,      \* read_data calls begun since stop_data was invoked
    ga_rows,            \* rows written by this gather_data call
    \* ---- BelimoValve (instruments.py 298-335) ----
    vv_req,             \* the latest request: the call, the voltage asked for
                        \* and the number of commands sent before it
    vv_sent,            \* voltages of the SOURCE:VOLT commands sent, in order
    vv_exc,             \* exception raised by the latest request, or "none"
    \* ---- parse_schedule (utils.py 214-233) ----
    ps_pc,              \* "off" | "returned"
    ps_file,            \* the draws the schedule file was written from
    ps_time,            \* the list time of the result
    ps_volume,          \* the list volume of the result
    ps_rate,            \* the list rate of the result
    \* ---- PowerMeter (instruments.py 224-266) ----
    measure_commands,   \* PowerMeter.measure_commands[1], the class attribute
    pm_log              \* reads made: the instance, the method called and the
                        \* quantity its commands selected

monVars == <<mon_pc, temperature_array, steady_state, mon_ret, mon_calls,
             hist, mon_consec, mon_since, mon_gap>>
envVars == <<prof, prt_state>>
daqVars == <<channels_set, channels, daq_queries, acq_result>>
fileVars == <<fexists, disk, buf, w_headers, file_already_exists>>
colVars == <<col_pc, successful_reads, col_reads, col_calls, col_exc,
             col_attempts, col_failed, col_rows0, col_ev, col_lasterr>>
procVars == <<proc_pc, proc_args, point_idx, bath_log, proc_exc, sanity>>
calVars == <<cal_functions, cal_set, cal_out>>
wrVars == <<w_open, w_runs, w_written, disk0>>
schedVars == <<sched_pc, schedule, now, elapsed, draw_num, draws_finished, launched,
               active>>
drawVars == <<draw_pc, draw_args, draw_log, draw_exc>>
busVars == <<samp_pc, samp_exc, samp_between>>
extVars == <<wrVars, schedVars, drawVars, busVars>>
ext2Vars == <<env_vary, dw_start, dw_now, dw_rows, dw_last,
              ga_pc, recording, ga_stopped, ga_after_stop, ga_rows,
              vv_req, vv_sent, vv_exc, ps_pc, ps_file, ps_time, ps_volume, ps_rate,
              measure_commands, pm_log>>
vars == <<monVars, envVars, daqVars, fileVars, colVars, procVars, calVars, extVars,
          ext2Vars>>

(***************************************************************************)
(* Program constants.                                                      *)
(***************************************************************************)
WindowMax == 60
SteadyMin == 60
SteadyDelta == 100
DefaultReads == 10
OneDegree == 1000
DaqLimit == 100000

(***************************************************************************)
(* Bounds of the model.                                                    *)
(***************************************************************************)
MaxFails == 2
MaxCalls == 2
MaxAccepted == 122
MaxColFails == 3
MaxPoints == 2
MaxRuns == 3
MaxRows == 3
MaxReadMinutes == 1

(***************************************************************************)
(* Environment: bath temperature profiles and thermometer replies.         *)
(***************************************************************************)
BaseTemp == 25 * 1000
EventPositions == {1, 59, 60}
Offsets == {-(SteadyDelta + 1), SteadyDelta, SteadyDelta + 1}
Profiles ==
    {[kind |-> "flat", at |-> 0, off |-> 0], [kind |-> "drift", at |-> 0, off |-> 0]}
    \cup [kind : {"spike", "step"}, at : EventPositions, off : Offsets]

\* The i-th reading the bath offers under profile p.
Stream(p, i) ==
    CASE p.kind = "flat"  -> BaseTemp
      [] p.kind = "drift" -> BaseTemp + (SteadyDelta + 1) * i
      [] p.kind = "spike" -> IF i = p.at THEN BaseTemp + p.off ELSE BaseTemp
      [] p.kind = "step"  -> IF i >= p.at THEN BaseTemp + p.off ELSE BaseTemp

\* A reply of the thermometer to READ?: the bus may time out, the six
\* characters may be no number, or a number.
GoodReply(v) == [kind |-> "num", val |-> v]
BadReplies == {[kind |-> "timeout", val |-> 0], [kind |-> "text", val |-> 0],
               [kind |-> "num", val |-> 0], [kind |-> "num", val |-> -BaseTemp]}
PrtReplies(v) == IF prt_state \in {"ok", "settled"} THEN {GoodReply(v)} ELSE BadReplies

is_number(reply) == reply.kind = "num"

\* PRT.get_temp: the parsed value, or the exception raised.
PRT_get_temp(reply) ==
    IF reply.kind = "timeout" THEN [exc |-> "VisaIOError", val |-> 0]
    ELSE IF ~(is_number(reply) /\ reply.val > 0) THEN [exc |-> "IOError", val |-> 0]
    ELSE [exc |-> "none", val |-> reply.val]

(***************************************************************************)
(* numpy helpers as the monitor uses them on a one-dimensional array.      *)
(***************************************************************************)
\* numpy.amax / numpy.amin: the largest / smallest element.
amax(a) == CHOOSE x \in {a[i] : i \in 1..Len(a)} : \A k \in 1..Len(a) : a[k] <= x
amin(a) == CHOOSE x \in {a[i] : i \in 1..Len(a)} : \A k \in 1..Len(a) : a[k] >= x

np_append(a, x) == Append(a, x)
np_delete_0(a) == Tail(a)

EvictKeepsOldest(a) == IF Len(a) > WindowMax THEN SubSeq(a, 1, Len(a) - 1) ELSE a
\* utils.py 205-206
Evict(a) == IF Len(a) > WindowMax THEN np_delete_0(a) ELSE a

IsSteadyNoSizeCheck(a) == (amax(a) - amin(a)) <= SteadyDelta
IsSteadyStrictSize(a) == ((amax(a) - amin(a)) <= SteadyDelta) /\ (Len(a) > SteadyMin)
\* utils.py 207-208
IsSteady(a) == ((amax(a) - amin(a)) <= SteadyDelta) /\ (Len(a) >= SteadyMin)

\* utils.py 196
FreshArray == <<>>

(***************************************************************************)
(* steady_state_monitor                                                    *)
(***************************************************************************)
\* Entry of the function: locals initialised, loop test passed.
MonEnter ==
    /\ temperature_array' = FreshArray
    /\ steady_state' = FALSE
    /\ mon_pc' = "poll"
    /\ mon_ret' = "pending"
    /\ mon_calls' = mon_calls + 1
    /\ hist' = <<>>
    /\ mon_consec' = 0
    /\ mon_since' = "start"
    /\ mon_gap' = "first"
    /\ prof' \in Profiles

Gap == IF mon_since = "start" THEN "first"
       ELSE IF mon_since = "sleep" THEN "slept" ELSE "none"

FailedKeepsArrayAppended == np_append(temperature_array, 0)
\* utils.py 201-202: the except branch leaves the array alone
FailedKeepsArray == temperature_array

\* One pass of the try body and what follows it up to the sleep
\* (utils.py 199-208): the acquisition fails and `continue` re-tests the
\* loop condition, or the reading is accepted.
MonRead ==
    /\ mon_pc = "poll"
    /\ Len(hist) < MaxAccepted
    /\ \E reply \in PrtReplies(Stream(prof, Len(hist) + 1)) :
         LET r == PRT_get_temp(reply) IN
         IF r.exc # "none"
         THEN /\ temperature_array' = FailedKeepsArray
              /\ mon_pc' = IF ~steady_state THEN "poll" ELSE "returned"
              /\ mon_ret' = IF ~steady_state THEN mon_ret ELSE "None"
              /\ mon_consec' = IF mon_consec < MaxFails THEN mon_consec + 1 ELSE mon_consec
              /\ UNCHANGED <<steady_state, hist>>
         ELSE LET arr == Evict(np_append(temperature_array, r.val)) IN
              /\ temperature_array' = arr
              /\ steady_state' = IsSteady(arr)
              /\ mon_pc' = "sleep"
              /\ hist' = Append(hist, r.val)
              /\ mon_consec' = 0
              /\ UNCHANGED mon_ret
    /\ mon_since' = "attempt"
    /\ mon_gap' = Gap
    /\ UNCHANGED <<procVars, mon_calls, envVars, daqVars, fileVars, colVars>>
    /\ UNCHANGED <<calVars, extVars>>
    /\ UNCHANGED ext2Vars

\* time.sleep(10), then `if steady_state: return True`, else the loop test
\* (utils.py 209-211, 198).
MonSleep ==
    /\ mon_pc = "sleep"
    /\ mon_since' = "sleep"
    /\ IF steady_state
       THEN mon_pc' = "returned" /\ mon_ret' = "True"
       ELSE mon_pc' = "poll" /\ UNCHANGED mon_ret
    /\ UNCHANGED <<procVars, temperature_array, steady_state, mon_calls, hist, mon_consec,
                   mon_gap, envVars, daqVars, fileVars, colVars>>
    /\ UNCHANGED <<calVars, extVars>>
    /\ UNCHANGED ext2Vars

\* The thermometer link degrades or recovers.
EnvToggle ==
    /\ prt_state \in {"ok", "faulty"}
    /\ prt_state' = IF prt_state = "ok" THEN "faulty" ELSE "ok"
    /\ UNCHANGED <<procVars, monVars, prof, daqVars, fileVars, colVars>>
    /\ UNCHANGED <<calVars, extVars>>
    /\ UNCHANGED ext2Vars

\* The thermometer link recovers for good.
EnvSettle ==
    /\ prt_state \in {"ok", "faulty"}
    /\ prt_state' = "settled"
    /\ UNCHANGED <<procVars, monVars, prof, daqVars, fileVars, colVars>>
    /\ UNCHANGED <<calVars, extVars>>
    /\ UNCHANGED ext2Vars

\* A caller invokes steady_state_monitor(prt).
CallMonitor ==
    /\ mon_pc \in {"idle", "returned"}
    /\ mon_calls < MaxCalls
    /\ MonEnter
    /\ UNCHANGED <<procVars, prt_state, daqVars, fileVars, colVars>>
    /\ UNCHANGED <<calVars, extVars>>
    /\ UNCHANGED ext2Vars

(***************************************************************************)
(* DAQ                                                                     *)
(***************************************************************************)
ChannelLists == {<<"101">>, <<"101", "102">>}

\* A reply of the DAQ to READ?: a timeout, or one value per channel.
DaqGood(n) == [i \in 1..n |-> BaseTemp]
DaqReplies(n) ==
    {[kind |-> "timeout", vals |-> <<>>],
     [kind |-> "num", vals |-> DaqGood(n)],
     [kind |-> "num", vals |-> [DaqGood(n) EXCEPT ![n] = DaqLimit]],
     [kind |-> "num", vals |-> [DaqGood(n) EXCEPT ![1] = 0]]}

\* instruments.py 147: all(0 < n < 100 for n in data)
InRange(data) == \A i \in 1..Len(data) : 0 < data[i] /\ data[i] < DaqLimit

\* DAQ.get_temp_uncalibrated (instruments.py 139-159): the data or the
\* exception raised, and the number of bus queries issued.
DAQ_get_temp_uncalibrated(reply) ==
    IF channels_set
    THEN IF reply.kind = "timeout"
         THEN [exc |-> "VisaIOError", data |-> <<>>, queries |-> 1]
         ELSE IF ~InRange(reply.vals)
         THEN [exc |-> "IOError", data |-> <<>>, queries |-> 1]
         ELSE [exc |-> "none", data |-> reply.vals, queries |-> 1]
    ELSE [exc |-> "UserWarning", data |-> <<>>, queries |-> 0]

\* Calibration entries. A gain multiplies a reading; an offset is in
\* thousandths of a degree.
AllChannels == {"101", "102"}
CalEntry(g, o) == [kind |-> "function", gain |-> g, offset |-> o]
\* No entry under the key (instruments.py 103: cal_functions = {}).
Absent == [kind |-> "absent", gain |-> 0, offset |-> 0]
\* No set_calibration call for the channel so far.
Never == [kind |-> "never", gain |-> 0, offset |-> 0]
\* instruments.py 116: lambda x: x
Identity == CalEntry(1, 0)
CalEntries == {CalEntry(g, o) : g \in {1, 2}, o \in {0, 500}}
Elems(seq) == {seq[i] : i \in 1..Len(seq)}

\* instruments.py 115-116: set_channels stores the identity function for
\* every channel of the new list.
ResetCal(cf, chs) == [c \in AllChannels |-> IF c \in Elems(chs) THEN Identity ELSE cf[c]]

\* instruments.py 170: cal_functions.update({channel: lambda x: gain*x + offset})
StoreCal(cf, c, g, o) == [cf EXCEPT ![c] = CalEntry(g, o)]

\* instruments.py 182: cal_functions[channel](data[channel])
ApplyCal(entry, x) == entry.gain * x + entry.offset

\* DAQ.get_calibrated_temp (instruments.py 172-189): the calibrated list,
\* or the exception of the raw read.
DAQ_get_calibrated_temp(reply) ==
    LET d == DAQ_get_temp_uncalibrated(reply) IN
    IF d.exc # "none" THEN [exc |-> d.exc, data |-> <<>>]
    ELSE [exc |-> "none",
          data |-> [i \in 1..Len(channels) |->
                       ApplyCal(cal_functions[channels[i]], d.data[i])]]

\* No get_calibrated_temp call since the DAQ was last changed.
NoCalOut == [exc |-> "idle", raw |-> <<>>, data |-> <<>>]

\* daq.set_channels(channels) on a DAQ in any state (instruments.py 106-137).
DaqSetChannels ==
    /\ \E chs \in ChannelLists :
         /\ channels' = chs
         /\ cal_functions' = ResetCal(cal_functions, chs)
    /\ channels_set' = TRUE
    /\ cal_out' = NoCalOut
    /\ UNCHANGED <<daq_queries, acq_result, cal_set,
                   monVars, envVars, fileVars, colVars, procVars, extVars>>
    /\ UNCHANGED ext2Vars

\* daq.set_calibration(channel, gain, offset) (instruments.py 161-170).
DaqSetCalibration ==
    /\ \E c \in AllChannels, e \in CalEntries :
         /\ cal_functions' = StoreCal(cal_functions, c, e.gain, e.offset)
         /\ cal_set' = [cal_set EXCEPT ![c] = e]
    /\ cal_out' = NoCalOut
    /\ UNCHANGED <<daqVars, monVars, envVars, fileVars, colVars, procVars, extVars>>
    /\ UNCHANGED ext2Vars

\* daq.get_calibrated_temp() (instruments.py 172-189).
DaqGetCalibrated ==
    /\ \E reply \in DaqReplies(Len(channels)) :
         LET r == DAQ_get_calibrated_temp(reply) IN
         cal_out' = [exc |-> r.exc,
                     raw |-> IF r.exc = "none" THEN reply.vals ELSE <<>>,
                     data |-> r.data]
    /\ UNCHANGED <<daqVars, cal_functions, cal_set,
                   monVars, envVars, fileVars, colVars, procVars, extVars>>
    /\ UNCHANGED ext2Vars

\* DAQ.set_channels (instruments.py 106-137) called by a client.
ClientSetChannels ==
    /\ col_pc = "idle"
    /\ ~channels_set
    /\ \E chs \in ChannelLists : channels' = chs
    /\ channels_set' = TRUE
    /\ daq_queries' = 0
    /\ acq_result' = "none"
    /\ UNCHANGED <<procVars, monVars, envVars, fileVars, colVars>>
    /\ cal_functions' = ResetCal(cal_functions, channels')
    /\ UNCHANGED <<cal_set, cal_out, extVars>>
    /\ UNCHANGED ext2Vars

\* DAQ.get_temp_uncalibrated called by a client.
ClientGetTemp ==
    /\ col_pc = "idle"
    /\ \E reply \in DaqReplies(Len(channels)) :
         LET d == DAQ_get_temp_uncalibrated(reply) IN
         /\ acq_result' = IF d.exc = "none" THEN "data" ELSE d.exc
         /\ daq_queries' = d.queries
    /\ UNCHANGED <<procVars, channels_set, channels, monVars, envVars, fileVars, colVars>>
    /\ UNCHANGED <<calVars, extVars>>
    /\ UNCHANGED ext2Vars

(***************************************************************************)
(* DataWriter                                                              *)
(***************************************************************************)
HeaderRow(labels) == [kind |-> "header", labels |-> labels, prt |-> 0, daq |-> <<>>]
DataRow(prt, daq) == [kind |-> "data", labels |-> <<>>, prt |-> prt, daq |-> daq]
\* A row that a previous run left in the file.
OldFile(labels) == <<HeaderRow(labels), DataRow(BaseTemp, DaqGood(Len(labels) - 1))>>

\* csv_writer.writerow on the buffered stream: the row joins the buffer,
\* and the buffer may be written through to the file.
WriteRow(row, spill) ==
    IF spill
    THEN disk' = disk \o buf \o <<row>> /\ buf' = <<>>
    ELSE buf' = Append(buf, row) /\ UNCHANGED disk

\* utils.py 66-67: _write puts the timestamp before the fields of input_data
WrittenFields(n) == 1 + n
\* utils.py 87: data = [prt.get_temp()] + daq.get_temp_uncalibrated()
CollectFields(row) == 1 + Len(row.daq)

\* utils.py 42: self.headers = ['Time'] + headers
Headers(headers) == <<"Time">> \o headers

HeaderRowsAlways(existed, labels) == <<HeaderRow(labels)>>
\* utils.py 50-52: the header row is written unless the file existed
HeaderRowsOnCreate(existed, labels) == IF existed THEN <<>> ELSE <<HeaderRow(labels)>>

\* A process starts and constructs a DataWriter on the path
\* (utils.py 35-52, with _open_file, 57-63).
WrConstruct ==
    /\ ~w_open
    /\ w_runs < MaxRuns
    /\ \E hs \in ChannelLists :
         /\ w_headers' = Headers(hs)
         /\ buf' = HeaderRowsOnCreate(fexists, Headers(hs))
         /\ w_written' = HeaderRowsOnCreate(fexists, Headers(hs))
    /\ file_already_exists' = fexists
    /\ fexists' = TRUE
    /\ disk' = IF fexists THEN disk ELSE <<>>
    /\ disk0' = disk
    /\ w_open' = TRUE
    /\ w_runs' = w_runs + 1
    /\ UNCHANGED <<monVars, envVars, daqVars, colVars, procVars, calVars,
                   schedVars, drawVars, busVars>>
    /\ UNCHANGED ext2Vars

\* The process writes one row: DataWriter._write (utils.py 65-67).
WrWrite ==
    /\ w_open
    /\ Len(w_written) < MaxRows
    /\ \E spill \in BOOLEAN :
         LET row == DataRow(BaseTemp, DaqGood(Len(w_headers) - 1)) IN
         /\ WriteRow(row, spill)
         /\ w_written' = Append(w_written, row)
    /\ UNCHANGED <<fexists, w_headers, file_already_exists, w_open, w_runs, disk0,
                   monVars, envVars, daqVars, colVars, procVars, calVars,
                   schedVars, drawVars, busVars>>
    /\ UNCHANGED ext2Vars

\* The process ends in the ordinary way: the interpreter closes the stream
\* opened at utils.py 59/62, which writes the buffer out.
WrExit ==
    /\ w_open
    /\ disk' = disk \o buf
    /\ buf' = <<>>
    /\ w_open' = FALSE
    /\ w_written' = <<>>
    /\ disk0' = <<>>
    /\ UNCHANGED <<fexists, w_headers, file_already_exists, w_runs,
                   monVars, envVars, daqVars, colVars, procVars, calVars,
                   schedVars, drawVars, busVars>>
    /\ UNCHANGED ext2Vars

\* The process is ended from outside (killed, power lost): what the stream
\* still held in its buffer never reaches the file.
WrKilled ==
    /\ w_open
    /\ buf' = <<>>
    /\ w_open' = FALSE
    /\ w_written' = <<>>
    /\ disk0' = <<>>
    /\ UNCHANGED <<fexists, disk, w_headers, file_already_exists, w_runs,
                   monVars, envVars, daqVars, colVars, procVars, calVars,
                   schedVars, drawVars, busVars>>
    /\ UNCHANGED ext2Vars

(***************************************************************************)
(* CalibrationWriter.collect_data                                          *)
(***************************************************************************)
ColLoopCondInclusive(sr, reads) == sr <= reads
\* utils.py 85
ColLoopCond(sr, reads) == sr < reads

\* Entry of collect_data(prt, daq, reads): locals initialised, loop tested.
ColEnter(reads) ==
    /\ successful_reads' = 0
    /\ col_reads' = reads
    /\ col_calls' = col_calls + 1
    /\ col_pc' = IF ColLoopCond(0, reads) THEN "attempt" ELSE "flush"
    /\ col_exc' = "none"
    /\ col_attempts' = 0
    /\ col_failed' = 0
    /\ col_rows0' = Len(disk) + Len(buf)
    /\ col_ev' = <<"start", "start">>
    /\ col_lasterr' = "none"
    /\ daq_queries' = 0
    /\ acq_result' = "none"

ColAfterFailureSleeps == "sleep"
\* utils.py 91-93: log and `continue`, back to the loop test
ColAfterFailure == IF ColLoopCond(successful_reads, col_reads) THEN "attempt" ELSE "flush"

\* The replies of the DAQ at attempt k of a batch during which the readings
\* move (a hundredth of a degree per attempt, the channels a thousandth
\* apart); k = 0 is the steady bath of DaqReplies.
DaqRepliesAt(n, k) ==
    LET seen == IF k = 0 THEN DaqGood(n) ELSE [i \in 1..n |-> BaseTemp + 10 * k + i] IN
    {[kind |-> "timeout", vals |-> <<>>],
     [kind |-> "num", vals |-> seen],
     [kind |-> "num", vals |-> [seen EXCEPT ![n] = DaqLimit]],
     [kind |-> "num", vals |-> [seen EXCEPT ![1] = 0]]}

\* A row that stops short of the last DAQ channel, for comparison.
RowOfPartial(t, d) == DataRow(t.val, SubSeq(d.data, 1, Len(d.data) - 1))
\* utils.py 87-88: data = [prt.get_temp()] + daq.get_temp_uncalibrated()
RowOf(t, d) == DataRow(t.val, d.data)

\* One pass of the try statement (utils.py 86-93).
ColAttempt ==
    /\ col_pc = "attempt"
    /\ col_attempts' = col_attempts + 1
    /\ \E r1 \in PrtReplies(BaseTemp + IF env_vary THEN col_attempts + 1 ELSE 0),
          r2 \in DaqRepliesAt(Len(channels), IF env_vary THEN col_attempts + 1 ELSE 0),
          spill \in BOOLEAN :
         LET t == PRT_get_temp(r1)
             d == DAQ_get_temp_uncalibrated(r2)
             exc == IF t.exc # "none" THEN t.exc ELSE d.exc
         IN
         IF exc # "none"
         THEN /\ col_failed < MaxColFails
              /\ col_failed' = col_failed + 1
              /\ col_lasterr' = exc
              /\ col_pc' = ColAfterFailure
              /\ col_ev' = <<col_ev[2], "fail">>
              /\ daq_queries' = IF t.exc # "none" THEN daq_queries
                                ELSE daq_queries + d.queries
              /\ UNCHANGED <<successful_reads, disk, buf>>
         ELSE /\ WriteRow(RowOf(t, d), spill)
              /\ successful_reads' = successful_reads + 1
              /\ col_lasterr' = "none"
              /\ col_pc' = "sleep"
              /\ col_ev' = <<col_ev[2], "ok">>
              /\ daq_queries' = daq_queries + d.queries
              /\ UNCHANGED col_failed
    /\ UNCHANGED <<procVars, col_reads, col_calls, col_exc, col_rows0, channels_set, channels,
                   acq_result, fexists, w_headers, file_already_exists,
                   monVars, envVars>>
    /\ UNCHANGED <<calVars, extVars>>
    /\ UNCHANGED ext2Vars

\* time.sleep(interval), then the loop test (utils.py 94, 85).
ColSleep ==
    /\ col_pc = "sleep"
    /\ col_ev' = <<col_ev[2], "sleep">>
    /\ col_pc' = IF ColLoopCond(successful_reads, col_reads) THEN "attempt" ELSE "flush"
    /\ UNCHANGED <<procVars, successful_reads, col_reads, col_calls, col_exc, col_attempts,
                   col_failed, col_rows0, col_lasterr,
                   monVars, envVars, daqVars, fileVars>>
    /\ UNCHANGED <<calVars, extVars>>
    /\ UNCHANGED ext2Vars

FlushKeepsBuffer == /\ UNCHANGED <<disk, buf>>
\* utils.py 96: self.output_file.flush()
Flush == disk' = disk \o buf /\ buf' = <<>>

\* utils.py 95-96, and the return.
ColFlush ==
    /\ col_pc = "flush"
    /\ Flush
    /\ col_pc' = "returned"
    /\ UNCHANGED <<procVars, successful_reads, col_reads, col_calls, col_exc, col_attempts,
                   col_failed, col_rows0, col_ev, col_lasterr,
                   fexists, w_headers, file_already_exists,
                   monVars, envVars, daqVars>>
    /\ UNCHANGED <<calVars, extVars>>
    /\ UNCHANGED ext2Vars

\* A client calls writer.collect_data(prt, daq, reads).
ClientCollect ==
    /\ col_pc = "idle"
    /\ \E reads \in {0, 1, DefaultReads} : ColEnter(reads)
    /\ UNCHANGED <<procVars, channels_set, channels, monVars, envVars, fileVars>>
    /\ UNCHANGED <<calVars, extVars>>
    /\ UNCHANGED ext2Vars

\* collect_data called for a few readings.
MaxReads == 3
ClientCollectFew ==
    /\ col_pc = "idle"
    /\ \E reads \in 1..MaxReads : ColEnter(reads)
    /\ UNCHANGED <<procVars, channels_set, channels, monVars, envVars, fileVars>>
    /\ UNCHANGED <<calVars, extVars>>
    /\ UNCHANGED ext2Vars

(***************************************************************************)
(* setpoint_calibration                                                    *)
(***************************************************************************)
\* calibration.py 21: the default set points.
DefaultPoints == <<5, 15, 25, 35, 45, 55, 65, 75>>
BathCmd(c, a) == [cmd |-> c, arg |-> a]
NoSanity == [diff |-> 0, log |-> "none"]

\* procedures.py 21: writer = CalibrationWriter(output_file, headers), that
\* is DataWriter.__init__ (utils.py 35-52) with _open_file (utils.py 57-63).
ProcNewWriter ==
    /\ proc_pc = "new_writer"
    /\ w_headers' = <<"Time">> \o proc_args.headers
    /\ file_already_exists' = fexists
    /\ fexists' = TRUE
    /\ IF fexists
       THEN UNCHANGED <<disk, buf>>
       ELSE /\ disk' = <<>>
            /\ buf' = <<HeaderRow(<<"Time">> \o proc_args.headers)>>
    /\ proc_pc' = "set_channels"
    /\ UNCHANGED <<proc_args, point_idx, bath_log, proc_exc, sanity,
                   monVars, envVars, daqVars, colVars>>
    /\ UNCHANGED <<calVars, extVars>>
    /\ UNCHANGED ext2Vars

\* procedures.py 23: daq.set_channels(channels)
ProcSetChannels ==
    /\ proc_pc = "set_channels"
    /\ channels' = proc_args.channels
    /\ channels_set' = TRUE
    /\ proc_pc' = "sanity"
    /\ UNCHANGED <<daq_queries, acq_result, proc_args, point_idx, bath_log, proc_exc,
                   sanity, monVars, envVars, fileVars, colVars>>
    /\ cal_functions' = ResetCal(cal_functions, channels')
    /\ UNCHANGED <<cal_set, cal_out, extVars>>
    /\ UNCHANGED ext2Vars

SanityDiffers(diff) == diff >= OneDegree

\* procedures.py 24-28: the DAQ is read, then the PRT, and the difference is
\* compared with one degree; an exception of either read leaves the function.
ProcSanity ==
    /\ proc_pc = "sanity"
    /\ \E r2 \in DaqReplies(Len(channels)),
          v \in {BaseTemp - 2 * OneDegree, BaseTemp - OneDegree, BaseTemp,
                 BaseTemp + 2 * OneDegree} :
         \E r1 \in PrtReplies(v) :
           LET d == DAQ_get_temp_uncalibrated(r2)
               t == PRT_get_temp(r1)
               exc == IF d.exc # "none" THEN d.exc ELSE t.exc
           IN
           IF exc # "none"
           THEN /\ proc_pc' = "raised"
                /\ proc_exc' = exc
                /\ UNCHANGED sanity
           ELSE LET diff == amax(d.data) - t.val IN
                /\ sanity' = [diff |-> diff,
                              log |-> IF SanityDiffers(diff) THEN "warning" ELSE "info"]
                /\ proc_pc' = "bath_start"
                /\ UNCHANGED proc_exc
    /\ UNCHANGED <<proc_args, point_idx, bath_log,
                   monVars, envVars, daqVars, fileVars, colVars>>
    /\ UNCHANGED <<calVars, extVars>>
    /\ UNCHANGED ext2Vars

\* procedures.py 30: bath.start()
ProcBathStart ==
    /\ proc_pc = "bath_start"
    /\ bath_log' = Append(bath_log, BathCmd("GO", 0))
    /\ sanity' = NoSanity
    /\ proc_pc' = "loop"
    /\ UNCHANGED <<proc_args, point_idx, proc_exc,
                   monVars, envVars, daqVars, fileVars, colVars>>
    /\ UNCHANGED <<calVars, extVars>>
    /\ UNCHANGED ext2Vars

\* procedures.py 32-35: the next set-point is commanded and the monitor called.
ProcSetPoint ==
    /\ proc_pc = "loop"
    /\ point_idx < Len(proc_args.set_points)
    /\ point_idx' = point_idx + 1
    /\ bath_log' = Append(bath_log, BathCmd("SP", proc_args.set_points[point_idx + 1]))
    /\ MonEnter
    /\ proc_pc' = "monitor"
    /\ UNCHANGED <<proc_args, proc_exc, sanity, prt_state, daqVars, fileVars, colVars>>
    /\ UNCHANGED <<calVars, extVars>>
    /\ UNCHANGED ext2Vars

\* The locals of a call that has returned are gone.
MonLeave ==
    /\ mon_pc' = "idle"
    /\ temperature_array' = <<>>
    /\ steady_state' = FALSE
    /\ mon_ret' = "pending"
    /\ hist' = <<>>
    /\ mon_consec' = 0
    /\ mon_since' = "start"
    /\ mon_gap' = "first"
    /\ prof' = [kind |-> "flat", at |-> 0, off |-> 0]
    /\ UNCHANGED mon_calls

ColLeave ==
    /\ col_pc' = "idle"
    /\ successful_reads' = 0
    /\ col_reads' = 0
    /\ col_exc' = "none"
    /\ col_attempts' = 0
    /\ col_failed' = 0
    /\ col_rows0' = 0
    /\ col_ev' = <<"start", "start">>
    /\ col_lasterr' = "none"
    /\ UNCHANGED col_calls

\* procedures.py 35-37: the monitor has returned; if its value is true,
\* collect_data(prt, daq) is called with its default reads.
ProcSteady ==
    /\ proc_pc = "monitor"
    /\ mon_pc = "returned"
    /\ MonLeave
    /\ IF mon_ret = "True"
       THEN /\ ColEnter(DefaultReads)
            /\ proc_pc' = "collect"
       ELSE /\ proc_pc' = "loop"
            /\ UNCHANGED <<colVars, daq_queries, acq_result>>
    /\ UNCHANGED <<prt_state, channels_set, channels,
                   fileVars, proc_args, point_idx, bath_log, proc_exc, sanity>>
    /\ UNCHANGED <<calVars, extVars>>
    /\ UNCHANGED ext2Vars

\* collect_data has returned: back to the for statement.
ProcBatchDone ==
    /\ proc_pc = "collect"
    /\ col_pc = "returned"
    /\ ColLeave
    /\ proc_pc' = "loop"
    /\ UNCHANGED <<proc_args, point_idx, bath_log, proc_exc, sanity,
                   monVars, envVars, daqVars, fileVars>>
    /\ UNCHANGED <<calVars, extVars>>
    /\ UNCHANGED ext2Vars

ForLoopDoneEarly(idx, pts) == idx >= Len(pts) - 1
\* procedures.py 32: the for statement has gone through set_points
ForLoopDone(idx, pts) == idx = Len(pts)

\* procedures.py 39: bath.stop() after the last set-point.
ProcBathStop ==
    /\ proc_pc = "loop"
    /\ ForLoopDone(point_idx, proc_args.set_points)
    /\ bath_log' = Append(bath_log, BathCmd("RR", -1))
    /\ proc_pc' = "done"
    /\ UNCHANGED <<proc_args, point_idx, proc_exc, sanity,
                   monVars, envVars, daqVars, fileVars, colVars>>
    /\ UNCHANGED <<calVars, extVars>>
    /\ UNCHANGED ext2Vars

(***************************************************************************)
(* The draw scheduler: the main loop of DOEtest.py.  Times are in minutes: *)
(* parse_schedule yields whole minutes, the loop compares elapsed with     *)
(* them and sleeps to the next whole minute.                               *)
(***************************************************************************)
\* schedule.time of the schedule files considered, as parse_schedule
\* (utils.py 214-233) returns it: one entry per row, in file order.
Schedules == {<<>>, <<0>>, <<0, 1>>, <<1, 3>>, <<0, 1, 2>>, <<2, 1, 4>>}

\* DOEtest.py 108: elapsed < (schedule.time[-1] + 60)
LoopCond(el, sch) == el < sch[Len(sch)] + 1

\* A launch held back while a draw process is running, for comparison.
DueNowWhenIdle(el, t, fin) == el >= t /\ ~fin /\ active = {}
DueNowIgnoresFinished(el, t, fin) == el >= t
\* DOEtest.py 111: (elapsed >= schedule.time[draw_num]) and not draws_finished
DueNow(el, t, fin) == el >= t /\ ~fin

\* DOEtest.py 106: draw_num = 1
FirstDrawNum == 1

\* DOEtest.py 103-107: the schedule is read and the loop variables set.
SchedStart ==
    /\ sched_pc = "off"
    /\ schedule' \in Schedules
    /\ now' = 0
    /\ elapsed' = 0
    /\ draw_num' = FirstDrawNum
    /\ draws_finished' = FALSE
    /\ launched' = <<>>
    /\ active' = {}
    /\ sched_pc' = "test"
    /\ UNCHANGED <<monVars, envVars, daqVars, fileVars, colVars, procVars, calVars,
                   wrVars, drawVars, busVars>>
    /\ UNCHANGED ext2Vars

\* DOEtest.py 108: the while test; schedule.time[-1] of an empty schedule
\* raises IndexError.
SchedTest ==
    /\ sched_pc = "test"
    /\ sched_pc' = IF schedule = <<>> THEN "raised"
                   ELSE IF LoopCond(elapsed, schedule) THEN "read" ELSE "done"
    /\ UNCHANGED <<schedule, now, elapsed, draw_num, draws_finished, launched,
                   monVars, envVars, daqVars, fileVars, colVars, procVars, calVars,
                   wrVars, drawVars, busVars>>
    /\ UNCHANGED <<active, ext2Vars>>

\* DOEtest.py 109-110: min_writer.read_data() returns after some time and
\* elapsed is taken, or it raises and the exception leaves the loop.
SchedRead ==
    /\ sched_pc = "read"
    /\ \/ \E d \in 0..MaxReadMinutes :
            /\ now' = now + d
            /\ elapsed' = now + d
            /\ sched_pc' = "check"
       \/ /\ sched_pc' = "raised"
          /\ UNCHANGED <<now, elapsed>>
    /\ UNCHANGED <<schedule, draw_num, draws_finished, launched,
                   monVars, envVars, daqVars, fileVars, colVars, procVars, calVars,
                   wrVars, drawVars, busVars>>
    /\ UNCHANGED <<active, ext2Vars>>

\* DOEtest.py 111-121: a draw process is started for entry draw_num if it
\* is due, then draw_num moves on or draws_finished is set.
\* schedule.time[draw_num] raises IndexError when draw_num is past the end.
SchedCheck ==
    /\ sched_pc = "check"
    /\ IF draw_num >= Len(schedule)
       THEN /\ sched_pc' = "raised"
            /\ UNCHANGED <<launched, active, draw_num, draws_finished>>
       ELSE /\ launched' = IF DueNow(elapsed, schedule[draw_num + 1], draws_finished)
                           THEN Append(launched, [entry |-> draw_num, at |-> elapsed])
                           ELSE launched
            /\ active' = IF DueNow(elapsed, schedule[draw_num + 1], draws_finished)
                         THEN active \cup {draw_num}
                         ELSE active
            /\ IF draw_num = Len(schedule) - 1
               THEN draws_finished' = TRUE /\ UNCHANGED draw_num
               ELSE draw_num' = draw_num + 1 /\ UNCHANGED draws_finished
            /\ sched_pc' = "sleep"
    /\ UNCHANGED <<schedule, now, elapsed,
                   monVars, envVars, daqVars, fileVars, colVars, procVars, calVars,
                   wrVars, drawVars, busVars>>
    /\ UNCHANGED ext2Vars

\* DOEtest.py 122: sleep to the next whole minute since the start.
SchedSleep ==
    /\ sched_pc = "sleep"
    /\ now' = now + 1
    /\ sched_pc' = "test"
    /\ UNCHANGED <<schedule, elapsed, draw_num, draws_finished, launched,
                   monVars, envVars, daqVars, fileVars, colVars, procVars, calVars,
                   wrVars, drawVars, busVars>>
    /\ UNCHANGED <<active, ext2Vars>>

\* A draw process ends: procedures.draw returns or raises (procedures.py
\* 88-109).  The main loop takes no notice.
DrawProcessEnds ==
    /\ \E e \in active : active' = active \ {e}
    /\ UNCHANGED <<sched_pc, schedule, now, elapsed, draw_num, draws_finished, launched,
                   monVars, envVars, daqVars, fileVars, colVars, procVars, calVars,
                   wrVars, drawVars, busVars>>
    /\ UNCHANGED ext2Vars

(***************************************************************************)
(* A draw task (procedures.draw, run in a process of its own) and, beside  *)
(* it, the sampler's SimulatedUseWriter.read_data.  Both reach the DAQ     *)
(* through VISAInstrument.command (clear, pause, write) and                *)
(* VISAInstrument.read (clear, pause, query); each bus operation is a step.*)
(***************************************************************************)
BusFreeExclusive(task) ==
    IF task = "draw" THEN samp_pc \notin {"rh_clear2", "rh_query"} ELSE TRUE
\* instruments.py 24-46: command and read take no lock before they use
\* visa_ref, so the bus is there for whichever task comes.
BusFree(task) == TRUE

\* A voltage as Python holds it: an int or a float, in thousandths of a volt.
PyInt(n) == [type |-> "int", val |-> n]
PyFloat(n) == [type |-> "float", val |-> n]
\* instruments.py 325: self._write_volts(0)
ResetVolts == PyInt(0)
\* instruments.py 317: 0 <= volts <= 10
VoltsValid(v) == 0 <= v.val /\ v.val <= 10 * 1000
\* instruments.py 321: 'SOURCE:VOLT {:2.3}, (@{})'.format(volts, channel).
\* A precision in the format of an int raises ValueError; a float is formatted.
FormatVolts(v) == IF v.type = "int" THEN "ValueError" ELSE "ok"

\* BelimoValve._write_volts (instruments.py 316-321): the exception raised,
\* or "none" when the command goes out.
WriteVoltsExc(v) ==
    IF ~VoltsValid(v) THEN "IOError"
    ELSE IF FormatVolts(v) # "ok" THEN FormatVolts(v)
    ELSE "none"

\* procedures.py 106: 8.217 * draw_amount, in thousandths of a pound.
PoundsPerGallon == 8217
DrawThreshold(amount) == PoundsPerGallon * amount

Step(name, val) == [step |-> name, val |-> val]
\* Bus operations of the draw task seen by the sampler between its
\* humidity configuration and its read.
Seen(op) == IF samp_pc \in {"rh_clear2", "rh_query"}
            THEN Append(samp_between, op) ELSE samp_between

\* visa_ref.clear() of a solenoid command (instruments.py 29), after the
\* dwell that precedes it (procedures.py 83).
DrawClear ==
    /\ draw_pc \in {"open_clear", "close_clear"}
    /\ BusFree("draw")
    /\ draw_pc' = IF draw_pc = "open_clear" THEN "open_write" ELSE "close_write"
    /\ samp_between' = Seen("clear")
    /\ UNCHANGED <<draw_args, draw_log, draw_exc, samp_pc, samp_exc,
                   monVars, envVars, daqVars, fileVars, colVars, procVars, calVars,
                   wrVars, schedVars>>
    /\ UNCHANGED ext2Vars

\* visa_ref.write of draw_solenoid.open() / close() in purge_loop
\* (procedures.py 82, 84; instruments.py 285-295, 31).
DrawWrite ==
    /\ draw_pc \in {"open_write", "close_write"}
    /\ BusFree("draw")
    /\ draw_log' = Append(draw_log,
                          Step(IF draw_pc = "open_write" THEN "ds_open" ELSE "ds_close", 0))
    /\ draw_pc' = IF draw_pc = "open_write" THEN "close_clear" ELSE "valve_reset"
    /\ samp_between' = Seen("write")
    /\ UNCHANGED <<draw_args, draw_exc, samp_pc, samp_exc,
                   monVars, envVars, daqVars, fileVars, colVars, procVars, calVars,
                   wrVars, schedVars>>
    /\ UNCHANGED ext2Vars

\* flow_valve.reset() (procedures.py 100, instruments.py 323-327): the
\* command goes out and the task waits, or _write_volts raises and the
\* exception ends the task.
DrawValveReset ==
    /\ draw_pc = "valve_reset"
    /\ LET exc == WriteVoltsExc(ResetVolts) IN
       IF exc # "none"
       THEN /\ draw_pc' = "raised"
            /\ draw_exc' = exc
            /\ UNCHANGED draw_log
       ELSE /\ draw_pc' = "weigh_close"
            /\ draw_log' = Append(draw_log, Step("valve_reset", 0))
            /\ UNCHANGED draw_exc
    /\ UNCHANGED <<draw_args, busVars,
                   monVars, envVars, daqVars, fileVars, colVars, procVars, calVars,
                   wrVars, schedVars>>
    /\ UNCHANGED ext2Vars

\* SimulatedUseWriter.read_data begins (utils.py 132): get_calibrated_temp
\* raises UserWarning at once if the channels were never set.
SampBegin ==
    /\ samp_pc = "begin"
    /\ IF channels_set
       THEN samp_pc' = "temps_clear" /\ UNCHANGED samp_exc
       ELSE samp_pc' = "raised" /\ samp_exc' = "UserWarning"
    /\ UNCHANGED <<samp_between, drawVars,
                   monVars, envVars, daqVars, fileVars, colVars, procVars, calVars,
                   wrVars, schedVars>>
    /\ UNCHANGED ext2Vars

\* visa_ref.clear() of one of the sampler's DAQ operations (instruments.py 29, 41).
SampClear ==
    /\ samp_pc \in {"temps_clear", "rh_clear1", "rh_clear2"}
    /\ BusFree("sampler")
    /\ samp_pc' = CASE samp_pc = "temps_clear" -> "temps_query"
                    [] samp_pc = "rh_clear1" -> "rh_conf"
                    [] samp_pc = "rh_clear2" -> "rh_query"
    /\ UNCHANGED <<samp_exc, samp_between, drawVars,
                   monVars, envVars, daqVars, fileVars, colVars, procVars, calVars,
                   wrVars, schedVars>>
    /\ UNCHANGED ext2Vars

\* The READ? of get_calibrated_temp (utils.py 132, instruments.py 146-149);
\* the power meter, read next (utils.py 133-135), is on a bus of its own.
SampTemps ==
    /\ samp_pc = "temps_query"
    /\ BusFree("sampler")
    /\ \E reply \in DaqReplies(Len(channels)) :
         LET r == DAQ_get_calibrated_temp(reply) IN
         IF r.exc # "none"
         THEN samp_pc' = "raised" /\ samp_exc' = r.exc
         ELSE samp_pc' = "rh_clear1" /\ UNCHANGED samp_exc
    /\ UNCHANGED <<samp_between, drawVars,
                   monVars, envVars, daqVars, fileVars, colVars, procVars, calVars,
                   wrVars, schedVars>>
    /\ UNCHANGED ext2Vars

\* HumiditySensor.rh: the CONF:CURR:DC command is written (instruments.py 382).
SampRhConf ==
    /\ samp_pc = "rh_conf"
    /\ BusFree("sampler")
    /\ samp_pc' = "rh_clear2"
    /\ samp_between' = <<>>
    /\ UNCHANGED <<samp_exc, drawVars,
                   monVars, envVars, daqVars, fileVars, colVars, procVars, calVars,
                   wrVars, schedVars>>
    /\ UNCHANGED ext2Vars

\* HumiditySensor.rh: the READ? (instruments.py 383), then
\* raw_out * self.gain + self.offset (384): a product of a list and a float
\* raises TypeError, a product of a number is the reading and read_data
\* goes on to write its row.
SampRhQuery ==
    /\ samp_pc = "rh_query"
    /\ BusFree("sampler")
    /\ \E container \in {"list", "number"} :
         IF container = "list"
         THEN samp_pc' = "raised" /\ samp_exc' = "TypeError"
         ELSE samp_pc' = "returned" /\ UNCHANGED samp_exc
    /\ UNCHANGED <<samp_between, drawVars,
                   monVars, envVars, daqVars, fileVars, colVars, procVars, calVars,
                   wrVars, schedVars>>
    /\ UNCHANGED ext2Vars

(***************************************************************************)
(* DrawWriter (utils.py 150-187).  Times are whole seconds of time.time(). *)
(***************************************************************************)
MaxClock == 3
MaxDwRows == 2

\* DrawWriter.read_data(initial) (utils.py 174-179), some time after the
\* call before: the calibrated temperatures (175), the elapsed field (176),
\* the weight (178: weigh multiplies what DAQ.read returned by a float,
\* instruments.py 359-360), then the row (179).
DwReadData ==
    /\ Len(dw_rows) < MaxDwRows
    /\ \E dt \in 0..1, initial \in BOOLEAN, reply \in DaqReplies(Len(channels)),
          container \in {"list", "number"} :
         LET t == DAQ_get_calibrated_temp(reply)
             \* utils.py 176: elapsed = 0 if initial else [self.start - time.time()]
             elapsed_ == IF initial THEN [type |-> "int", val |-> 0]
                         ELSE [type |-> "list", val |-> dw_start - (dw_now + dt)]
             \* utils.py 179: elapsed + temp_data + weight, the two others being
             \* lists: the sum of an int and a list raises TypeError.
             concat == IF elapsed_.type = "list" THEN "none" ELSE "TypeError"
             answered == t.exc = "none" /\ container = "number"
             exc == IF t.exc # "none" THEN t.exc
                    ELSE IF container = "list" THEN "TypeError"
                    ELSE concat
         IN
         /\ dw_now + dt <= MaxClock
         /\ dw_now' = dw_now + dt
         /\ dw_last' = [initial |-> initial, answered |-> answered, exc |-> exc]
         /\ dw_rows' = IF exc = "none"
                       THEN Append(dw_rows, [initial |-> initial, elapsed |-> elapsed_.val,
                                             at |-> dw_now + dt, since |-> dw_start])
                       ELSE dw_rows
    /\ UNCHANGED <<monVars, envVars, daqVars, fileVars, colVars, procVars, calVars, extVars>>
    /\ UNCHANGED <<env_vary, dw_start, ga_pc, recording, ga_stopped,
                   ga_after_stop, ga_rows, vv_req, vv_sent, vv_exc, ps_pc,
                   ps_file, ps_time, ps_volume, ps_rate, measure_commands,
                   pm_log>>

\* DrawWriter.reset (utils.py 185-187), some time after the call before.
DwReset ==
    /\ \E dt \in 0..1 :
         /\ dw_now + dt <= MaxClock
         /\ dw_now' = dw_now + dt
         /\ dw_start' = dw_now + dt
    /\ UNCHANGED <<monVars, envVars, daqVars, fileVars, colVars, procVars, calVars, extVars>>
    /\ UNCHANGED <<env_vary, dw_rows, dw_last, ga_pc, recording, ga_stopped,
                   ga_after_stop, ga_rows, vv_req, vv_sent, vv_exc, ps_pc,
                   ps_file, ps_time, ps_volume, ps_rate, measure_commands,
                   pm_log>>

(***************************************************************************)
(* PowerMeter (instruments.py 224-266).  measure_commands is an attribute  *)
(* of the class: one list for every instance.  The variable holds the      *)
(* quantity part of its second element, "{}" while it is the template.     *)
(***************************************************************************)
MaxPmReads == 2

\* instruments.py 252-266: the argument each method passes to _read_sequence.
QuantityOf(method) ==
    CASE method = "read_watts" -> "W"
      [] method = "read_energy" -> "WH"
      [] method = "read_volts" -> "V"
      [] method = "read_amps" -> "A"

\* PowerMeter._read_sequence (instruments.py 246-250) for a sequence of
\* calls: the element after them, and for each the quantity its commands
\* selected.
RECURSIVE ReadSequence(_, _, _)
ReadSequence(element, inst, methods) ==
    IF methods = <<>> THEN [element |-> element, log |-> <<>>]
    ELSE LET value == QuantityOf(Head(methods))
             \* instruments.py 247: measure_commands[1].format(value) fills in
             \* the replacement field; a text without one is returned as it is.
             e == IF element = "{}" THEN value ELSE element
             rest == ReadSequence(e, inst, Tail(methods))
         IN [element |-> rest.element,
             log |-> <<[inst |-> inst, method |-> Head(methods), selected |-> e]>>
                         \o rest.log]

\* One of read_watts, read_energy, read_volts, read_amps on one of two
\* PowerMeter objects.
PmRead ==
    /\ Len(pm_log) < MaxPmReads
    /\ \E inst \in {"pm1", "pm2"},
          method \in {"read_watts", "read_energy", "read_volts", "read_amps"} :
         LET r == ReadSequence(measure_commands, inst, <<method>>) IN
         /\ measure_commands' = r.element
         /\ pm_log' = pm_log \o r.log
    /\ UNCHANGED <<monVars, envVars, daqVars, fileVars, colVars, procVars, calVars, extVars>>
    /\ UNCHANGED <<env_vary, dw_start, dw_now, dw_rows, dw_last, ga_pc,
                   recording, ga_stopped, ga_after_stop, ga_rows, vv_req,
                   vv_sent, vv_exc, ps_pc, ps_file, ps_time, ps_volume,
                   ps_rate>>

(***************************************************************************)
(* SimulatedUseWriter.gather_data (utils.py 120-128) in one thread and     *)
(* stop_data (145-147) called from another.                                *)
(***************************************************************************)
MaxGaRows == 2

\* utils.py 126: while self.recording, at the call and after every sleep.
GaTest ==
    /\ ga_pc \in {"off", "test"}
    /\ ga_pc' = IF recording THEN "read" ELSE "returned"
    /\ UNCHANGED <<recording, ga_stopped, ga_after_stop, ga_rows>>
    /\ UNCHANGED <<monVars, envVars, daqVars, fileVars, colVars, procVars, calVars, extVars>>
    /\ UNCHANGED <<env_vary, dw_start, dw_now, dw_rows, dw_last, vv_req,
                   vv_sent, vv_exc, ps_pc, ps_file, ps_time, ps_volume,
                   ps_rate, measure_commands, pm_log>>

\* utils.py 127: self.read_data() (130-139): the DAQ's temperatures, the
\* four reads of the power meter, the humidity (rh multiplies what DAQ.read
\* returned by a float, instruments.py 383-384), then the row.  gather_data
\* handles no exception.
GaRead ==
    /\ ga_pc = "read"
    /\ ga_rows < MaxGaRows
    /\ ga_after_stop' = IF ga_stopped THEN ga_after_stop + 1 ELSE ga_after_stop
    /\ \E reply \in DaqReplies(Len(channels)), container \in {"list", "number"} :
         LET t == DAQ_get_calibrated_temp(reply)
             r == ReadSequence(measure_commands, "pm1",
                               <<"read_watts", "read_energy", "read_volts", "read_amps">>)
         IN
         IF t.exc # "none"
         THEN /\ ga_pc' = "raised"
              /\ UNCHANGED <<ga_rows, measure_commands, pm_log>>
         ELSE /\ measure_commands' = r.element
              /\ pm_log' = pm_log \o r.log
              /\ IF container = "list"
                 THEN ga_pc' = "raised" /\ UNCHANGED ga_rows
                 ELSE ga_pc' = "sleep" /\ ga_rows' = ga_rows + 1
    /\ UNCHANGED <<recording, ga_stopped>>
    /\ UNCHANGED <<monVars, envVars, daqVars, fileVars, colVars, procVars, calVars, extVars>>
    /\ UNCHANGED <<env_vary, dw_start, dw_now, dw_rows, dw_last, vv_req,
                   vv_sent, vv_exc, ps_pc, ps_file, ps_time, ps_volume,
                   ps_rate>>

\* utils.py 128: time.sleep(interval)
GaSleep ==
    /\ ga_pc = "sleep"
    /\ ga_pc' = "test"
    /\ UNCHANGED <<recording, ga_stopped, ga_after_stop, ga_rows>>
    /\ UNCHANGED <<monVars, envVars, daqVars, fileVars, colVars, procVars, calVars, extVars>>
    /\ UNCHANGED <<env_vary, dw_start, dw_now, dw_rows, dw_last, vv_req,
                   vv_sent, vv_exc, ps_pc, ps_file, ps_time, ps_volume,
                   ps_rate, measure_commands, pm_log>>

\* stop_data (utils.py 145-147), from another thread while gather_data runs.
GaStop ==
    /\ ga_pc \in {"test", "read", "sleep"}
    /\ ~ga_stopped
    /\ recording' = FALSE
    /\ ga_stopped' = TRUE
    /\ UNCHANGED <<ga_pc, ga_after_stop, ga_rows>>
    /\ UNCHANGED <<monVars, envVars, daqVars, fileVars, colVars, procVars, calVars, extVars>>
    /\ UNCHANGED <<env_vary, dw_start, dw_now, dw_rows, dw_last, vv_req,
                   vv_sent, vv_exc, ps_pc, ps_file, ps_time, ps_volume,
                   ps_rate, measure_commands, pm_log>>

(***************************************************************************)
(* BelimoValve (instruments.py 298-335) as its callers use it.  vv_sent is *)
(* what the DAQ received from the valve so far.                            *)
(***************************************************************************)
MaxValveCmds == 3

\* What a request transmits and raises: a sequence of _write_volts calls
\* (instruments.py 316-321), each sending its command unless it raises, the
\* first exception ending the request.
RECURSIVE Transmit(_)
Transmit(volts) ==
    IF volts = <<>> THEN [sent |-> <<>>, exc |-> "none"]
    ELSE IF WriteVoltsExc(Head(volts)) # "none"
    THEN [sent |-> <<>>, exc |-> WriteVoltsExc(Head(volts))]
    ELSE LET rest == Transmit(Tail(volts))
             v == Head(volts).val
             \* instruments.py 321: '{:2.3}' writes a float with three
             \* significant digits: hundredths of a volt from 1 V up.
             sent == IF v >= 1000 THEN ((v + 5) \div 10) * 10 ELSE v
         IN [sent |-> <<sent>> \o rest.sent, exc |-> rest.exc]

\* BelimoValve._write_volts(volts) (instruments.py 316-321), with an int or
\* a float, inside the range or outside.
VvWriteVolts ==
    /\ Len(vv_sent) < MaxValveCmds
    /\ \E v \in {PyInt(0), PyInt(5000), PyInt(11000),
                 PyFloat(-500), PyFloat(0), PyFloat(2500), PyFloat(3142),
                 PyFloat(10000), PyFloat(10500)} :
         LET r == Transmit(<<v>>) IN
         /\ vv_req' = [call |-> "_write_volts", volts |-> v, mark |-> Len(vv_sent)]
         /\ vv_sent' = vv_sent \o r.sent
         /\ vv_exc' = r.exc
    /\ UNCHANGED <<monVars, envVars, daqVars, fileVars, colVars, procVars, calVars, extVars>>
    /\ UNCHANGED <<env_vary, dw_start, dw_now, dw_rows, dw_last, ga_pc,
                   recording, ga_stopped, ga_after_stop, ga_rows, ps_pc,
                   ps_file, ps_time, ps_volume, ps_rate, measure_commands,
                   pm_log>>

\* BelimoValve.set_flow(flow_rate) (instruments.py 329-335): is_reset is
\* False (313) and assigned nowhere else, so reset() comes first (330-331,
\* 323-327), then flow_rate * volt_const.  Flow rates are floats in gallons
\* per minute, volt_const is in thousandths of a volt per gallon per minute
\* (301: 0 by default).
VvSetFlow ==
    /\ Len(vv_sent) + 1 < MaxValveCmds
    /\ \E flow_rate \in {0, 3, 6}, volt_const \in {0, 2000} :
         LET v_send == PyFloat(flow_rate * volt_const)
             r == Transmit(<<ResetVolts, v_send>>)
         IN
         /\ vv_req' = [call |-> "set_flow", volts |-> v_send, mark |-> Len(vv_sent)]
         /\ vv_sent' = vv_sent \o r.sent
         /\ vv_exc' = r.exc
    /\ UNCHANGED <<monVars, envVars, daqVars, fileVars, colVars, procVars, calVars, extVars>>
    /\ UNCHANGED <<env_vary, dw_start, dw_now, dw_rows, dw_last, ga_pc,
                   recording, ga_stopped, ga_after_stop, ga_rows, ps_pc,
                   ps_file, ps_time, ps_volume, ps_rate, measure_commands,
                   pm_log>>

(***************************************************************************)
(* parse_schedule (utils.py 214-233).  A field of the file is a sequence   *)
(* of characters; a float is held in thousandths.                          *)
(***************************************************************************)
MaxSchedRows == 3

DigitChars == <<"0", "1", "2", "3", "4", "5", "6", "7", "8", "9">>

\* The text of a schedule row as its author writes it: 'HH:MM', and the
\* volume and the rate with one decimal.
RowText(d) ==
    LET Digit(n) == DigitChars[n + 1]
        TwoDigits(n) == <<Digit(n \div 10), Digit(n % 10)>>
        IntText(n) == IF n < 10 THEN <<Digit(n)>> ELSE TwoDigits(n)
        DecimalText(v) == IntText(v \div 1000) \o <<".", Digit((v % 1000) \div 100)>>
    IN <<TwoDigits(d.hh) \o <<":">> \o TwoDigits(d.mm),
         DecimalText(d.volume), DecimalText(d.rate)>>

\* int(text)
RECURSIVE ParseInt(_)
ParseInt(chars) ==
    IF chars = <<>> THEN 0
    ELSE 10 * ParseInt(SubSeq(chars, 1, Len(chars) - 1))
             + (CHOOSE d \in 0..9 : DigitChars[d + 1] = chars[Len(chars)])

\* float(text) of a decimal with up to three places, in thousandths.
ParseFloat(chars) ==
    IF \E i \in 1..Len(chars) : chars[i] = "."
    THEN LET dot == CHOOSE i \in 1..Len(chars) : chars[i] = "."
             frac == SubSeq(chars, dot + 1, Len(chars))
             scale == CASE Len(frac) = 0 -> 1000 [] Len(frac) = 1 -> 100
                        [] Len(frac) = 2 -> 10 [] Len(frac) = 3 -> 1
         IN 1000 * ParseInt(SubSeq(chars, 1, dot - 1)) + ParseInt(frac) * scale
    ELSE 1000 * ParseInt(chars)

\* A mistaken conversion, for comparison: the hours taken as minutes.
total_seconds_of_minutes(h, m) == 60 * h + 60 * m
\* utils.py 229: timedelta(hours=h, minutes=m).total_seconds()
total_seconds(h, m) == 3600 * h + 60 * m

\* utils.py 224-233: the three lists after the rows of the reader, in order.
RECURSIVE parse_schedule(_)
parse_schedule(rows) ==
    IF rows = <<>> THEN [time |-> <<>>, volume |-> <<>>, rate |-> <<>>]
    ELSE LET row == rows[Len(rows)]
             before == parse_schedule(SubSeq(rows, 1, Len(rows) - 1))
             \* utils.py 228: h,m = re.split(':', row[0])
             colon == CHOOSE i \in 1..Len(row[1]) : row[1][i] = ":"
             h == SubSeq(row[1], 1, colon - 1)
             m == SubSeq(row[1], colon + 1, Len(row[1]))
         IN [time |-> before.time \o <<total_seconds(ParseInt(h), ParseInt(m))>>,
             volume |-> before.volume \o <<ParseFloat(row[2])>>,
             rate |-> before.rate \o <<ParseFloat(row[3])>>]

\* parse_schedule(schedule_file) called on a schedule file of up to
\* MaxSchedRows rows.
PsParse ==
    /\ ps_pc = "off"
    /\ \E n \in 0..MaxSchedRows :
       \E file \in [1..n -> {[hh |-> 0, mm |-> 0, volume |-> 40000, rate |-> 5000],
                              [hh |-> 1, mm |-> 30, volume |-> 40000, rate |-> 5000],
                              [hh |-> 0, mm |-> 5, volume |-> 2500, rate |-> 1700],
                              [hh |-> 12, mm |-> 45, volume |-> 10500, rate |-> 3000],
                              [hh |-> 23, mm |-> 59, volume |-> 500, rate |-> 500]}] :
         LET r == parse_schedule([i \in 1..Len(file) |-> RowText(file[i])]) IN
         /\ ps_file' = file
         /\ ps_time' = r.time
         /\ ps_volume' = r.volume
         /\ ps_rate' = r.rate
    /\ ps_pc' = "returned"
    /\ UNCHANGED <<monVars, envVars, daqVars, fileVars, colVars, procVars, calVars, extVars>>
    /\ UNCHANGED <<env_vary, dw_start, dw_now, dw_rows, dw_last, ga_pc,
                   recording, ga_stopped, ga_after_stop, ga_rows, vv_req,
                   vv_sent, vv_exc, measure_commands, pm_log>>

(***************************************************************************)
(* Initial states and specifications.                                      *)
(***************************************************************************)
InitDaqVars ==
    /\ channels_set = FALSE
    /\ channels = <<>>
    /\ daq_queries = 0
    /\ acq_result = "none"

\* No writer constructed, no file.
InitFileVars ==
    /\ fexists = FALSE
    /\ disk = <<>>
    /\ buf = <<>>
    /\ w_headers = <<>>
    /\ file_already_exists = FALSE

\* DAQ.__init__ (instruments.py 103): cal_functions = {}
InitCalVars ==
    /\ cal_functions = [c \in AllChannels |-> Absent]
    /\ cal_set = [c \in AllChannels |-> Never]
    /\ cal_out = NoCalOut

InitColVars ==
    /\ col_pc = "idle"
    /\ successful_reads = 0
    /\ col_reads = 0
    /\ col_calls = 0
    /\ col_exc = "none"
    /\ col_attempts = 0
    /\ col_failed = 0
    /\ col_rows0 = 0
    /\ col_ev = <<"start", "start">>
    /\ col_lasterr = "none"

\* DataWriter.__init__ (utils.py 35-52) run on a path with or without a file.
WriterConstructed(headers, existed) ==
    /\ w_headers = <<"Time">> \o headers
    /\ file_already_exists = existed
    /\ fexists = TRUE
    /\ disk = IF existed THEN OldFile(<<"Time">> \o headers) ELSE <<>>
    /\ buf = IF existed THEN <<>> ELSE <<HeaderRow(<<"Time">> \o headers)>>

InitMonVars ==
    /\ mon_pc = "idle"
    /\ temperature_array = <<>>
    /\ steady_state = FALSE
    /\ mon_ret = "pending"
    /\ mon_calls = 0
    /\ hist = <<>>
    /\ mon_consec = 0
    /\ mon_since = "start"
    /\ mon_gap = "first"
    /\ prof = [kind |-> "flat", at |-> 0, off |-> 0]

\* setpoint_calibration is not running.
InitProcVars ==
    /\ proc_pc = "idle"
    /\ proc_args = [set_points |-> <<>>, headers |-> <<>>, channels |-> <<>>]
    /\ point_idx = 0
    /\ bath_log = <<>>
    /\ proc_exc = "none"
    /\ sanity = NoSanity

InitWrVars ==
    /\ w_open = FALSE
    /\ w_runs = 0
    /\ w_written = <<>>
    /\ disk0 = <<>>

\* The draw test is not running.
InitSchedVars ==
    /\ sched_pc = "off"
    /\ schedule = <<>>
    /\ now = 0
    /\ elapsed = 0
    /\ draw_num = 0
    /\ draws_finished = FALSE
    /\ launched = <<>>
    /\ active = {}

\* No draw task and no sampler.
InitDrawVars ==
    /\ draw_pc = "off"
    /\ draw_args = [flow_rate |-> 0, draw_amount |-> 0]
    /\ draw_log = <<>>
    /\ draw_exc = "none"

InitBusVars ==
    /\ samp_pc = "off"
    /\ samp_exc = "none"
    /\ samp_between = <<>>

InitExt ==
    /\ InitWrVars
    /\ InitSchedVars
    /\ InitDrawVars
    /\ InitBusVars

\* The objects of the draw test as their constructors leave them:
\* DrawWriter.__init__ takes start from the clock (utils.py 171),
\* SimulatedUseWriter.__init__ sets recording (117), nothing was asked of
\* the valve yet (instruments.py 301-314), parse_schedule was not called,
\* and measure_commands is as the class body has it (instruments.py 228-229).
InitParts ==
    /\ dw_start = 0
    /\ dw_now = 0
    /\ dw_rows = <<>>
    /\ dw_last = [initial |-> FALSE, answered |-> FALSE, exc |-> "idle"]
    /\ ga_pc = "off"
    /\ recording = TRUE
    /\ ga_stopped = FALSE
    /\ ga_after_stop = 0
    /\ ga_rows = 0
    /\ vv_req = [call |-> "none", volts |-> ResetVolts, mark |-> 0]
    /\ vv_sent = <<>>
    /\ vv_exc = "none"
    /\ ps_pc = "off"
    /\ ps_file = <<>>
    /\ ps_time = <<>>
    /\ ps_volume = <<>>
    /\ ps_rate = <<>>
    /\ measure_commands = "{}"
    /\ pm_log = <<>>

InitMon ==
    /\ InitMonVars
    /\ prt_state \in {"ok", "faulty"}
    /\ InitDaqVars
    /\ InitFileVars
    /\ InitColVars
    /\ InitProcVars
    /\ InitCalVars
    /\ InitExt
    /\ env_vary = FALSE
    /\ InitParts

NextMon == CallMonitor \/ MonRead \/ MonSleep \/ EnvToggle \/ EnvSettle

\* The monitor is a running thread of control: it keeps taking steps.
SpecMon == InitMon /\ [][NextMon]_vars /\ WF_vars(MonRead \/ MonSleep)

\* A client of the library: a DAQ and a PRT just constructed, a
\* CalibrationWriter constructed on its path, then calls in any order.
InitCol ==
    /\ InitMonVars
    /\ prt_state \in {"ok", "faulty"}
    /\ InitDaqVars
    /\ InitColVars
    /\ InitProcVars
    /\ \E hs \in ChannelLists, existed \in BOOLEAN : WriterConstructed(hs, existed)
    /\ InitCalVars
    /\ InitExt
    /\ env_vary = FALSE
    /\ InitParts

NextCol == ClientSetChannels \/ ClientGetTemp \/ ClientCollect
           \/ ColAttempt \/ ColSleep \/ ColFlush \/ EnvToggle

SpecCol == InitCol /\ [][NextCol]_vars

\* collect_data on instruments whose readings move from attempt to attempt.
InitRows ==
    /\ InitMonVars
    /\ prt_state \in {"ok", "faulty"}
    /\ InitDaqVars
    /\ InitColVars
    /\ InitProcVars
    /\ \E hs \in ChannelLists, existed \in BOOLEAN : WriterConstructed(hs, existed)
    /\ InitCalVars
    /\ InitExt
    /\ env_vary = TRUE
    /\ InitParts

SpecRows ==
    InitRows /\ [][ClientSetChannels \/ ClientCollectFew
                     \/ ColAttempt \/ ColSleep \/ ColFlush \/ EnvToggle]_vars

\* setpoint_calibration called with instruments just constructed, on a path
\* with or without a file left by an earlier run.
Init ==
    /\ InitMonVars
    /\ prt_state \in {"ok", "faulty"}
    /\ InitDaqVars
    /\ InitColVars
    /\ fexists \in BOOLEAN
    /\ \E n \in 0..MaxPoints, chs \in ChannelLists :
         \* calibration.py 70-71: the headers are the channel names
         proc_args = [set_points |-> SubSeq(DefaultPoints, 1, n),
                      headers |-> chs, channels |-> chs]
    /\ disk = IF fexists THEN OldFile(<<"Time">> \o proc_args.headers) ELSE <<>>
    /\ buf = <<>>
    /\ w_headers = <<>>
    /\ file_already_exists = FALSE
    /\ proc_pc = "new_writer"
    /\ point_idx = 0
    /\ bath_log = <<>>
    /\ proc_exc = "none"
    /\ sanity = NoSanity
    /\ InitCalVars
    /\ InitExt
    /\ env_vary = FALSE
    /\ InitParts

Next == ProcNewWriter \/ ProcSetChannels \/ ProcSanity \/ ProcBathStart
        \/ ProcSetPoint \/ ProcSteady \/ ProcBatchDone \/ ProcBathStop
        \/ MonRead \/ MonSleep \/ ColAttempt \/ ColSleep \/ ColFlush \/ EnvToggle

Spec == Init /\ [][Next]_vars

\* Processes that construct a DataWriter on one path, one after another,
\* starting from no file.
InitWriter ==
    /\ InitMonVars
    /\ prt_state = "ok"
    /\ InitDaqVars
    /\ InitFileVars
    /\ InitColVars
    /\ InitProcVars
    /\ InitCalVars
    /\ InitExt
    /\ env_vary = FALSE
    /\ InitParts

NextWriter == WrConstruct \/ WrWrite \/ WrExit \/ WrKilled

SpecWriter == InitWriter /\ [][NextWriter]_vars

\* A DAQ just constructed and a client that configures, calibrates and reads it.
InitDaq ==
    /\ InitMonVars
    /\ prt_state = "ok"
    /\ InitDaqVars
    /\ InitFileVars
    /\ InitColVars
    /\ InitProcVars
    /\ InitCalVars
    /\ InitExt
    /\ env_vary = FALSE
    /\ InitParts

NextDaq == DaqSetChannels \/ DaqSetCalibration \/ DaqGetCalibrated

SpecDaq == InitDaq /\ [][NextDaq]_vars

\* The draw test from the point where the schedule is parsed.
InitSched ==
    /\ InitMonVars
    /\ prt_state = "ok"
    /\ InitDaqVars
    /\ InitFileVars
    /\ InitColVars
    /\ InitProcVars
    /\ InitCalVars
    /\ InitExt
    /\ env_vary = FALSE
    /\ InitParts

NextSched == SchedStart \/ SchedTest \/ SchedRead \/ SchedCheck \/ SchedSleep
             \/ DrawProcessEnds

SpecSched == InitSched /\ [][NextSched]_vars

\* A draw process just started by the main loop, and the main loop entering
\* its next read_data.  The DAQ is as its owner left it: never configured
\* (as DOEtest.py leaves it) or configured with a channel list.
InitDraw ==
    /\ InitMonVars
    /\ prt_state = "ok"
    /\ daq_queries = 0
    /\ acq_result = "none"
    /\ \/ /\ channels_set = FALSE
          /\ channels = <<>>
       \/ /\ channels_set = TRUE
          /\ channels \in ChannelLists
    /\ cal_functions = ResetCal([c \in AllChannels |-> Absent], channels)
    /\ cal_set = [c \in AllChannels |-> Never]
    /\ cal_out = NoCalOut
    /\ InitFileVars
    /\ InitColVars
    /\ InitProcVars
    /\ InitWrVars
    /\ InitSchedVars
    /\ draw_pc = "open_clear"
    /\ draw_args \in [flow_rate : {3}, draw_amount : {10, 40}]
    /\ draw_log = <<>>
    /\ draw_exc = "none"
    /\ samp_pc = "begin"
    /\ samp_exc = "none"
    /\ samp_between = <<>>
    /\ env_vary = FALSE
    /\ InitParts

NextDraw == DrawClear \/ DrawWrite \/ DrawValveReset
            \/ SampBegin \/ SampClear \/ SampTemps \/ SampRhConf \/ SampRhQuery

SpecDraw == InitDraw /\ [][NextDraw]_vars

\* The draw writer as a draw task calls it.
SpecDrawWriter == InitDraw /\ [][DwReadData \/ DwReset]_vars

\* gather_data with stop_data from another thread, and the power meter
\* read by other callers besides.
SpecGather == InitDraw /\ [][GaTest \/ GaRead \/ GaSleep \/ GaStop \/ PmRead]_vars

\* A valve just constructed and its callers.
SpecValve == InitDaq /\ [][VvWriteVolts \/ VvSetFlow]_vars

\* parse_schedule called on schedule files.
SpecParse == InitDaq /\ [][PsParse]_vars

(***************************************************************************)
(* Claims about steady_state_monitor.                                      *)
(***************************************************************************)
Min2(a, b) == IF a < b THEN a ELSE b
\* The last n elements of h, in order.
LastN(h, n) == SubSeq(h, Len(h) - n + 1, Len(h))
\* At least 60 readings were accepted in this invocation and the 60 most
\* recent of them lie within steady_delta of each other.
SteadyCond(h) ==
    /\ Len(h) >= 60
    /\ \A i, j \in (Len(h) - 59)..Len(h) : h[i] - h[j] <= SteadyDelta

\* C1: the monitor returns (steady) at a poll if and only if, at that poll,
\* at least 60 readings have been accepted in this invocation and the 60
\* most recent of them have max - min <= steady_delta: the decision taken at
\* each poll is that condition, a return happens only under it, and the
\* monitor goes on polling only when the latest poll did not meet it.
C1_SteadyIff ==
    /\ mon_pc = "sleep" => (steady_state <=> SteadyCond(hist))
    /\ mon_pc = "returned" => (mon_ret = "True" /\ SteadyCond(hist))
    /\ mon_pc = "poll" => ~SteadyCond(hist)

\* A second invocation (the first one ended steady on the same temperature)
\* took 59 readings within tolerance and an outlier as the 60th, did not
\* report steady while the outlier was among the last 60, and returned at
\* the 120th reading.
C1_Witness ==
    /\ mon_calls = 2
    /\ mon_pc = "returned"
    /\ Len(hist) = 120
    /\ hist[60] - hist[59] > SteadyDelta

\* C2: between polls the window holds at most 60 readings and is exactly
\* the last min(k, 60) of the k readings accepted so far, in arrival order
\* (so it never shrinks once full and eviction is strict FIFO).
C2_WindowIsLast60 ==
    /\ Len(temperature_array) <= 60
    /\ Len(temperature_array) = Min2(Len(hist), 60)
    /\ temperature_array = LastN(hist, Min2(Len(hist), 60))

\* More than 60 readings accepted, of which the evicted one differs from
\* those kept.
C2_Witness ==
    /\ Len(hist) > 61
    /\ Len(temperature_array) = 60
    /\ hist[1] # hist[Len(hist)]
    /\ mon_pc = "sleep"

\* C4: the poll-interval sleep lies between every two consecutive
\* acquisition attempts of an invocation, whether the earlier one succeeded
\* or failed.
C4_SleepBetweenAttempts == mon_gap # "none"

\* C5: a failed acquisition leaves the window exactly as it was, raises
\* nothing to the caller, and leaves the monitor about to attempt again,
\* however many failures came before.
C5_FailureKeepsWindow ==
    [][(mon_consec' = mon_consec + 1) =>
          /\ temperature_array' = temperature_array
          /\ hist' = hist
          /\ mon_pc' = "poll"
          /\ mon_ret' = "pending"]_vars

\* Several failures in a row with a partly filled window, still polling.
C5_Witness ==
    /\ mon_consec = MaxFails
    /\ Len(temperature_array) = 59
    /\ mon_pc = "poll"

\* The readings offered from now on stay within steady_delta.
Settles == prof.kind # "drift"

\* C6: the monitor never returns anything but True, and if from some point
\* on every acquisition succeeds and the readings stay within steady_delta,
\* a running invocation returns.
C6_OnlyTrueAndEventually ==
    /\ [](mon_pc = "returned" => mon_ret = "True")
    /\ (prt_state = "settled" /\ Settles /\ mon_pc \in {"poll", "sleep"})
          ~> (mon_pc = "returned")

\* An invocation returned True after the link had settled, having taken
\* more than 60 readings.
C6_Witness ==
    /\ mon_pc = "returned"
    /\ mon_ret = "True"
    /\ prt_state = "settled"
    /\ Len(hist) > 60

(***************************************************************************)
(* Claims about CalibrationWriter.collect_data and the DAQ.                *)
(***************************************************************************)
\* Rows written by the running (or last) collect_data call.
RowsThisCall == Len(disk) + Len(buf) - col_rows0

\* C3: a failed attempt writes no row and does not count, and collect_data
\* returns only once exactly `reads` rows were written, so with F failed
\* attempts the acquisition was attempted exactly reads + F times.
C3_ExactlyNRows ==
    col_pc # "idle" =>
       /\ RowsThisCall = col_attempts - col_failed
       /\ RowsThisCall <= col_reads
       /\ col_pc = "returned" =>
             /\ RowsThisCall = col_reads
             /\ col_attempts = col_reads + col_failed

\* Ten rows out of thirteen attempts, three of which failed.
C3_Witness ==
    /\ col_pc = "returned"
    /\ col_reads = 10
    /\ col_failed = 3
    /\ col_attempts = 13
    /\ RowsThisCall = 10

\* C7: after a failed attempt comes the next attempt with no interval delay
\* in between, after a successful row comes exactly one interval delay, and
\* nothing else: no delay follows a failure or another delay, and no attempt
\* follows a success directly.
C7_DelayOnlyAfterSuccess ==
    /\ col_ev[1] = "fail" => col_ev[2] \in {"ok", "fail"}
    /\ col_ev[1] = "ok" => col_ev[2] = "sleep"
    /\ col_ev[2] = "sleep" => col_ev[1] = "ok"
    /\ col_ev[1] = "sleep" => col_ev[2] \in {"ok", "fail"}
    /\ (col_pc = "attempt" /\ col_ev[2] # "start") => col_ev[2] \in {"fail", "sleep"}
    /\ col_pc = "sleep" <=> col_ev[2] = "ok"

\* A row written right after a failed attempt, and the delay due after it.
C7_Witness ==
    /\ col_ev = <<"fail", "ok">>
    /\ col_pc = "sleep"
    /\ successful_reads > 1

\* C9: acquiring from a DAQ whose channels were never set raises a
\* condition of its own kind, issues no bus query and is not retried: in
\* collect_data it reaches the caller.
C9_PreconditionFatal ==
    /\ acq_result = "UserWarning" => (~channels_set /\ daq_queries = 0)
    /\ (~channels_set /\ acq_result # "none") => acq_result = "UserWarning"
    /\ col_lasterr = "UserWarning" =>
          /\ daq_queries = 0
          /\ col_pc = "raised"
          /\ col_exc = "UserWarning"

(***************************************************************************)
(* Claims about setpoint_calibration.                                      *)
(***************************************************************************)
IsData(row) == row.kind = "data"
\* Data rows of this run that have reached the file.
DiskData == Len(SelectSeq(disk, IsData)) - (IF file_already_exists THEN 1 ELSE 0)
\* Number of set-point commands sent to the bath.
IsSP(c) == c.cmd = "SP"
NumSP == Len(SelectSeq(bath_log, IsSP))
BathStopped == bath_log # <<>> /\ bath_log[Len(bath_log)].cmd = "RR"

\* C8: collect_data returns only with all `reads` rows written and flushed,
\* so whenever the bath has been commanded to its i-th set-point all rows of
\* the i - 1 earlier set-points are in the file, and when the bath has been
\* stopped the rows of every set-point are.
C8_FlushedBeforeNextSetPoint ==
    /\ col_pc = "returned" => (buf = <<>> /\ RowsThisCall = col_reads)
    /\ NumSP >= 1 => DiskData >= DefaultReads * (NumSP - 1)
    /\ BathStopped => DiskData = DefaultReads * Len(proc_args.set_points)

\* Two set-points done and the bath stopped, on a path that had no file.
C8_Witness ==
    /\ BathStopped
    /\ NumSP = 2
    /\ ~file_already_exists
    /\ DiskData = 2 * DefaultReads

\* C10: a transient read error (a malformed or out-of-range reply of the
\* DAQ or the thermometer) is retried where it occurs and never ends the
\* calibration procedure.
C10_TransientNeverEndsProcedure == ~(proc_pc = "raised" /\ proc_exc = "IOError")

(***************************************************************************)
(* Claims about the DataWriter and its file.                               *)
(***************************************************************************)
IsHeader(row) == row.kind = "header"
NumHeaders(rows) == Len(SelectSeq(rows, IsHeader))
IsPrefix(a, b) == Len(a) <= Len(b) /\ SubSeq(b, 1, Len(a)) = a

\* C11: a DataWriter constructed where no file exists creates the file and
\* writes exactly one header row, 'Time' followed by the supplied headers
\* in order, before any data row; constructed where a file exists it writes
\* no header row and the contents of the file stay in place.
C11_HeaderOnlyOnCreate ==
    w_open =>
       /\ fexists
       /\ IF file_already_exists
          THEN /\ NumHeaders(w_written) = 0
               /\ IsPrefix(disk0, disk)
          ELSE /\ disk0 = <<>>
               /\ NumHeaders(w_written) = 1
               /\ IsHeader(w_written[1])
               /\ w_written[1].labels = w_headers
               /\ w_headers[1] = "Time"
               /\ Tail(w_headers) \in ChannelLists

\* A writer constructed on the file an earlier process left (a header and
\* data rows) has written rows of its own.
C11_Witness ==
    /\ w_open
    /\ file_already_exists
    /\ Len(disk0) >= 2
    /\ Len(w_written) >= 2
    /\ Len(disk) > Len(disk0)

\* C12: over any sequence of writer constructions (a process may end at any
\* point, also before its buffered output reached the file) and row writes
\* on one path, starting from no file: a file that holds any row holds
\* exactly one header row and it is the first row, and what is in the file
\* is never removed or altered (the contents only grow).
C12_OneHeaderAppendOnly ==
    /\ disk # <<>> => (NumHeaders(disk) = 1 /\ IsHeader(disk[1]))
    /\ w_open => IsPrefix(disk0, disk)

\* Number of fields of a row of the file.
FieldCount(row) ==
    IF IsHeader(row) THEN Len(row.labels) ELSE WrittenFields(CollectFields(row))

\* C13: every data row a writer writes has as many fields as the header row
\* of its file; for collect_data, when one header was supplied per
\* configured channel.
C13_RowsMatchHeader ==
    (col_pc # "idle" /\ Len(w_headers) = 1 + Len(channels)) =>
       \A i \in (col_rows0 + 1)..Len(disk \o buf) :
          FieldCount((disk \o buf)[i]) = Len(w_headers)

(***************************************************************************)
(* Claims about the order of setpoint_calibration.                         *)
(***************************************************************************)
\* The set-points commanded so far, in the order of the commands.
PointsCommanded == [i \in 1..NumSP |-> SelectSeq(bath_log, IsSP)[i].arg]
\* Positions of the bath-stop command in bath_log.
StopsAt == {i \in 1..Len(bath_log) : bath_log[i].cmd = "RR"}

\* C14: setpoint_calibration commands the set-points in list order, none
\* skipped or repeated; for each it calls the monitor once and, only after
\* the monitor reported steady, runs exactly one collect_data batch before
\* the next set-point; the bath is stopped exactly once, after the batch of
\* the last set-point (with an empty list, with no batch at all).
C14_SetPointOrder ==
    /\ [](/\ PointsCommanded = SubSeq(proc_args.set_points, 1, point_idx)
          /\ mon_calls = point_idx
          /\ proc_pc = "monitor" => (col_calls = point_idx - 1 /\ col_pc = "idle")
          /\ proc_pc \in {"loop", "collect", "done"} => col_calls = point_idx
          /\ StopsAt \subseteq {Len(bath_log)}
          /\ BathStopped =>
                /\ proc_pc = "done"
                /\ point_idx = Len(proc_args.set_points)
                /\ col_calls = Len(proc_args.set_points)
                /\ col_pc = "idle")
    /\ [][col_calls' = col_calls + 1 =>
             (mon_pc = "returned" /\ mon_ret = "True" /\ steady_state)]_vars

\* Both set-points of a two-point list done, each with its monitor call
\* and its batch, and the procedure finished.
C14_Witness ==
    /\ proc_pc = "done"
    /\ point_idx = 2
    /\ mon_calls = 2
    /\ col_calls = 2
    /\ Len(bath_log) = 4

(***************************************************************************)
(* Claims about the draw scheduler.                                        *)
(***************************************************************************)
\* Entries (counted from 0) for which a draw process was started.
EntriesLaunched == {launched[i].entry : i \in 1..Len(launched)}

\* C15: every schedule entry, the first one included, whose time elapsed
\* reaches while the test runs gets its draw task: when the main loop has
\* ended, no entry whose time was reached is left without one.
C15_EveryDueEntryLaunched ==
    sched_pc = "done" =>
       \A e \in 0..(Len(schedule) - 1) :
          schedule[e + 1] <= elapsed => e \in EntriesLaunched

\* C16: the scheduler never starts a draw task for an entry before elapsed
\* has reached the entry's time, and never starts more than one draw task
\* for the same entry.
C16_NeverEarlyNeverTwice ==
    /\ \A i \in 1..Len(launched) :
          /\ launched[i].entry \in 0..(Len(schedule) - 1)
          /\ launched[i].at >= schedule[launched[i].entry + 1]
    /\ \A i, j \in 1..Len(launched) :
          launched[i].entry = launched[j].entry => i = j

\* The loop ran to its end over a three-entry schedule and started two
\* draw tasks, the last one after draws_finished could be set.
C16_Witness ==
    /\ sched_pc = "done"
    /\ Len(schedule) = 3
    /\ Len(launched) = 2
    /\ draws_finished
    /\ now > elapsed

(***************************************************************************)
(* Claims about the draw task and the sampler beside it.                   *)
(***************************************************************************)
\* The sampler has written its humidity configuration and not yet read.
SamplerBetween == samp_pc \in {"rh_clear2", "rh_query"}

DrawSteps == [i \in 1..Len(draw_log) |-> draw_log[i].step]
\* Purge (open, close), valve reset, weigh-tank solenoid closed, initial
\* sample, draw solenoid opened.
StepsBeforeLoop == <<"ds_open", "ds_close", "valve_reset", "ws_close", "sample0", "ds_open">>
DrawEnded == draw_pc \in {"raised", "returned"}

\* C18: a draw task performs, in this order, the purge (draw solenoid
\* opened, then closed), the reset of the flow valve, the closing of the
\* weigh-tank solenoid, one initial sample and the opening of the draw
\* solenoid, and only then samples and weighs: its steps never leave that
\* order and it does not stop before it has done them.
C18_DrawStepOrder ==
    /\ IsPrefix(DrawSteps, StepsBeforeLoop) \/ IsPrefix(StepsBeforeLoop, DrawSteps)
    /\ DrawEnded => IsPrefix(StepsBeforeLoop, DrawSteps)

\* C19: the sample-and-weigh loop takes one sample before each scale poll,
\* goes on while the reading polled is below 8.217 x draw_amount and ends
\* at the first poll that is not; the draw task has no other exit, so it
\* ends only after such a poll.
C19_EndsOnlyAtThreshold ==
    /\ \A i \in 1..Len(draw_log) :
          draw_log[i].step = "weigh" =>
             /\ i > 1 /\ draw_log[i - 1].step = "sample"
             /\ i < Len(draw_log) => draw_log[i].val < DrawThreshold(draw_args.draw_amount)
    /\ DrawEnded =>
          /\ draw_log # <<>>
          /\ draw_log[Len(draw_log)].step = "weigh"
          /\ draw_log[Len(draw_log)].val >= DrawThreshold(draw_args.draw_amount)

(***************************************************************************)
(* Claims about the DAQ's calibration entries.                             *)
(***************************************************************************)
\* C20: the calibration set for a channel by set_calibration is changed
\* only by a later set_calibration for that channel: whatever else is done,
\* set_channels included, the entry stays the (gain, offset) last set, and
\* a channel has the identity entry (or none) only if no calibration was
\* ever set for it.
C20_CalibrationKept ==
    \A c \in AllChannels :
       IF cal_set[c] = Never
       THEN cal_functions[c] \in {Absent, Identity}
       ELSE cal_functions[c] = cal_set[c]

(***************************************************************************)
(* C21: get_calibrated_temp returns, for every configured channel in       *)
(* channel order, gain * raw + offset with the (gain, offset) most         *)
(* recently passed to set_calibration for that channel (the raw reading    *)
(* itself for a channel that was never calibrated); a set_calibration of   *)
(* one channel does not change the result of another.                      *)
(***************************************************************************)
LastSet(c) == IF cal_set[c] = Never THEN Identity ELSE cal_set[c]

C21_OwnLatestCalibration ==
    cal_out.exc = "none" =>
        /\ Len(cal_out.data) = Len(channels)
        /\ \A i \in 1..Len(channels) :
               cal_out.data[i] = ApplyCal(LastSet(channels[i]), cal_out.raw[i])

(***************************************************************************)
(* C22: the sanity check of setpoint_calibration logs the warning exactly  *)
(* when the highest DAQ reading and the PRT reading differ by more than    *)
(* one degree, whichever of the two is the higher, and the 'within 1       *)
(* degree' message otherwise; the calibration goes on in both cases.       *)
(***************************************************************************)
Abs(x) == IF x < 0 THEN -x ELSE x

C22_WarningIffApart ==
    sanity.log # "none" =>
        /\ sanity.log = "warning" <=> Abs(sanity.diff) > OneDegree
        /\ sanity.log = "info" <=> Abs(sanity.diff) <= OneDegree

(***************************************************************************)
(* C23: the elapsed field of a row of DrawWriter.read_data is zero when    *)
(* initial is true and otherwise the time of the call minus the writer's   *)
(* start time, which is never negative; a call that the instruments        *)
(* answered writes its row, with initial true as with initial false.       *)
(***************************************************************************)
C23_ElapsedField ==
    /\ \A i \in 1..Len(dw_rows) :
          /\ dw_rows[i].elapsed = IF dw_rows[i].initial THEN 0
                                  ELSE dw_rows[i].at - dw_rows[i].since
          /\ dw_rows[i].elapsed >= 0
    /\ dw_last.answered => dw_last.exc = "none"

(***************************************************************************)
(* C24: gather_data checks the recording flag once per iteration, so at    *)
(* most one read_data begins after stop_data was invoked, and the loop     *)
(* does not end unless stop_data was invoked.                              *)
(***************************************************************************)
C24_EndsOnlyByStop ==
    /\ ga_after_stop <= 1
    /\ ga_pc \in {"returned", "raised"} => ga_stopped

(***************************************************************************)
(* C25: the main loop of DOEtest.py ends at the first tick at which the    *)
(* time since the start of the test is at least the last entry's time plus *)
(* one minute: it has ended by no earlier tick, and no iteration (with its *)
(* periodic sample) begins at such a tick.                                 *)
(***************************************************************************)
EndTime == schedule[Len(schedule)] + 1

C25_EndsAtFirstTickPastEnd ==
    Len(schedule) > 0 =>
        /\ sched_pc = "done" => now >= EndTime
        /\ sched_pc = "read" => now < EndTime

(***************************************************************************)
(* C26: a voltage outside 0..10 V asked of _write_volts or set_flow makes  *)
(* the call raise with no command sent for it; a voltage inside the range  *)
(* is sent, and the command carries the voltage that was asked for.        *)
(***************************************************************************)
SentForRequest == SubSeq(vv_sent, vv_req.mark + 1, Len(vv_sent))

C26_RejectedOrSentUnchanged ==
    vv_req.call \in {"_write_volts", "set_flow"} =>
        IF VoltsValid(vv_req.volts)
        THEN /\ vv_exc = "none"
             /\ SentForRequest # <<>>
             /\ SentForRequest[Len(SentForRequest)] = vv_req.volts.val
        ELSE /\ vv_exc # "none"
             /\ SentForRequest = <<>>

(***************************************************************************)
(* C27: parse_schedule maps every row 'HH:MM,volume,rate' to the time      *)
(* HH * 3600 + MM * 60 in seconds and to its volume and rate, in file      *)
(* order, in three lists of the length of the file; '01:30,40.0,5.0'       *)
(* gives 5400, 40.0 and 5.0.                                               *)
(***************************************************************************)
C27_RowsToSeconds ==
    ps_pc = "returned" =>
        /\ Len(ps_time) = Len(ps_file)
        /\ Len(ps_volume) = Len(ps_file)
        /\ Len(ps_rate) = Len(ps_file)
        /\ \A i \in 1..Len(ps_file) :
              /\ ps_time[i] = ps_file[i].hh * 3600 + ps_file[i].mm * 60
              /\ ps_volume[i] = ps_file[i].volume
              /\ ps_rate[i] = ps_file[i].rate
        /\ \A i \in 1..Len(ps_file) :
              RowText(ps_file[i]) = <<<<"0", "1", ":", "3", "0">>,
                                      <<"4", "0", ".", "0">>, <<"5", ".", "0">>>>
                  => ps_time[i] = 5400 /\ ps_volume[i] = 40000 /\ ps_rate[i] = 5000

C27_Witness ==
    /\ ps_pc = "returned"
    /\ Len(ps_file) >= 3
    /\ ps_time[2] = 5400
    /\ ps_time[1] = 45900
    /\ ps_volume[3] = 2500

(***************************************************************************)
(* C28: every read_watts, read_energy, read_volts and read_amps call       *)
(* selects its own quantity (W, WH, V, A), whatever reads were made        *)
(* before it on any instance; so the four power reads of a row select      *)
(* watts, energy, volts and amps in that order.                            *)
(***************************************************************************)
C28_OwnQuantity ==
    \A i \in 1..Len(pm_log) : pm_log[i].selected = QuantityOf(pm_log[i].method)

(***************************************************************************)
(* C29: every row written by collect_data holds the thermometer reading    *)
(* and the DAQ readings, one per configured channel in order, of one and   *)
(* the same acquisition attempt, later rows coming from later attempts; an *)
(* attempt that failed, the DAQ's after a good thermometer reading         *)
(* included, wrote nothing.                                                *)
(***************************************************************************)
RowsOfCall == SubSeq(disk \o buf, col_rows0 + 1, Len(disk) + Len(buf))
\* The attempt a row's thermometer value was read in.
AttemptOf(row) == row.prt - BaseTemp

C29_RowsOfOneAttempt ==
    (env_vary /\ col_pc # "idle") =>
        /\ Len(RowsOfCall) = col_attempts - col_failed
        /\ \A i \in 1..Len(RowsOfCall) :
              /\ RowsOfCall[i].kind = "data"
              /\ AttemptOf(RowsOfCall[i]) \in 1..col_attempts
              /\ RowsOfCall[i].daq = [c \in 1..Len(channels) |->
                                         BaseTemp + 10 * AttemptOf(RowsOfCall[i]) + c]
        /\ \A i \in 1..(Len(RowsOfCall) - 1) :
              AttemptOf(RowsOfCall[i]) < AttemptOf(RowsOfCall[i + 1])

\* A row written on the retry after an attempt in which the thermometer
\* answered and the DAQ failed.
C29_Witness ==
    /\ env_vary
    /\ col_pc = "sleep"
    /\ col_failed = 1
    /\ Len(channels) = 2
    /\ daq_queries = successful_reads + 1
    /\ Len(RowsOfCall) = 2
    /\ AttemptOf(RowsOfCall[1]) = 1
    /\ AttemptOf(RowsOfCall[2]) = 3

DrawSolenoidCmds == SelectSeq(DrawSteps, LAMBDA s : s \in {"ds_open", "ds_close"})
WeighSolenoidCmds == SelectSeq(DrawSteps, LAMBDA s : s \in {"ws_open", "ws_close"})
ValveVoltsSent == SelectSeq(draw_log, LAMBDA e : e.step \in {"valve_reset", "valve_flow"})

====
